---- MODULE Spec2Model ----
(***************************************************************************)
(* Model of the Mini Generals simulation engine (src/src/game/engine.ts).  *)
(*                                                                         *)
(* Representation                                                          *)
(*   - Identities (uuidv4 strings) are modelled by creation order: the     *)
(*     k-th unit created has id k, the k-th player admitted has id k, the  *)
(*     k-th resource spawned has id k.  Object.values() of an object with  *)
(*     non-numeric string keys iterates in insertion order, so iterating   *)
(*     1..Len(seq) is the engine's iteration order.  0 stands for          *)
(*     null / undefined.                                                   *)
(*   - Wall-clock time is in integer milliseconds (Date.now()); deltaTime  *)
(*     and gameTime are therefore whole numbers of milliseconds.           *)
(*   - Coordinates are fixed point, in 1/PosScale distance units, so that  *)
(*     speed * deltaTime * 60 is a whole number for every delta.           *)
(*   - Health is fixed point, in 1/HealthScale points, so that             *)
(*     attack - defense / 2 is a whole number.                             *)
(*   - player.units (an array of references to unit objects) is a          *)
(*     sequence of unit ids.                                               *)
(*   - unit.path undefined and unit.path = [] are both << >>: the engine   *)
(*     only ever tests  unit.path && unit.path.length > 0.                 *)
(***************************************************************************)
EXTENDS Integers, Sequences, FiniteSets, TLC

VARIABLES
    players,    \* state.players : sequence (admission order) of Player records
    units,      \* state.units   : sequence (creation order) of Unit records
    resources,  \* state.resources : sequence (spawn order) of Resource records
    gameTime,   \* state.gameTime, in milliseconds
    ret,        \* the last call on the engine and whether it returned true / an id
    tick,       \* what the last update() did: damage applications and credits
    issued,     \* number of createUnit, moveUnit and attackUnit calls that succeeded
    waited,     \* per resource: the deltas summed since it was last collected
    gameRunning, \* GameController.gameRunning
    animationFrameId, \* GameController.animationFrameId: a handle or NULL
    frames      \* the browser's animation-frame callbacks holding gameLoop

vars == <<players, units, resources, gameTime, ret, tick, issued, waited,
          gameRunning, animationFrameId, frames>>

----------------------------------------------------------------------------
(* Scales and enumerations                                                 *)

PosScale == 100
HealthScale == 2
MsPerSecond == 1000

SOLDIER == "SOLDIER"
TANK == "TANK"
HELICOPTER == "HELICOPTER"
UnitType == {SOLDIER, TANK, HELICOPTER}

NULL == 0

Abs(n) == IF n < 0 THEN -n ELSE n
Min(a, b) == IF a < b THEN a ELSE b
Max(a, b) == IF a > b THEN a ELSE b

Pos(px, py) == [x |-> px * PosScale, y |-> py * PosScale]

----------------------------------------------------------------------------
(* Tables                                                                  *)

BASE_UNIT_COSTS(unitType) ==
    CASE unitType = SOLDIER -> 150
      [] unitType = TANK -> 450
      [] unitType = HELICOPTER -> 700

\* speed2 is 2 * speed (speed is 2, 1.5, 3); health and maxHealth are in points.
UNIT_STATS(unitType) ==
    CASE unitType = SOLDIER ->
           [health |-> 100, maxHealth |-> 100, attack |-> 10, defense |-> 5,
            range |-> 3, speed2 |-> 4,
            canAttackAir |-> TRUE, canAttackGround |-> TRUE]
      [] unitType = TANK ->
           [health |-> 300, maxHealth |-> 300, attack |-> 30, defense |-> 20,
            range |-> 5, speed2 |-> 3,
            canAttackAir |-> FALSE, canAttackGround |-> TRUE]
      [] unitType = HELICOPTER ->
           [health |-> 200, maxHealth |-> 200, attack |-> 25, defense |-> 10,
            range |-> 7, speed2 |-> 6,
            canAttackAir |-> TRUE, canAttackGround |-> TRUE]

respawnTime == 30
resourceAmount == 150
startingMoney == 800
collectionRange == 30

----------------------------------------------------------------------------
(* IEEE-754 double arithmetic, as far as the price computation needs it.   *)
(* JavaScript numbers are doubles: 53-bit significand, round to nearest,   *)
(* ties to even.  A non-negative double is [m, e]: the significand m as a  *)
(* little-endian sequence of bits (<< >> is zero) and the exponent e, the  *)
(* value being m * 2^e.  Exponent range limits are never approached.       *)

Significand == 53

RECURSIVE bitsToNat(_)
bitsToNat(b) ==
    IF b = << >> THEN 0 ELSE Head(b) + 2 * bitsToNat(Tail(b))

RECURSIVE natToBits(_)
natToBits(n) ==
    IF n = 0 THEN << >> ELSE <<n % 2>> \o natToBits(n \div 2)

RECURSIVE stripZeros(_)
stripZeros(b) ==
    IF b = << >> THEN << >>
    ELSE IF b[Len(b)] = 0 THEN stripZeros(SubSeq(b, 1, Len(b) - 1))
    ELSE b

\* a + b + carry on bit sequences
RECURSIVE addBits(_, _, _)
addBits(a, b, carry) ==
    IF a = << >> /\ b = << >> THEN natToBits(carry)
    ELSE LET x == IF a = << >> THEN 0 ELSE Head(a)
             y == IF b = << >> THEN 0 ELSE Head(b)
             s == x + y + carry
         IN  <<s % 2>> \o addBits(IF a = << >> THEN a ELSE Tail(a),
                                  IF b = << >> THEN b ELSE Tail(b),
                                  s \div 2)

\* a * k + carry, k a small natural number
RECURSIVE mulSmall(_, _, _)
mulSmall(a, k, carry) ==
    IF a = << >> THEN natToBits(carry)
    ELSE LET s == Head(a) * k + carry
         IN  <<s % 2>> \o mulSmall(Tail(a), k, s \div 2)

\* The exact value m * 2^e rounded to a double.
roundDouble(m0, e) ==
    LET m == stripZeros(m0)
        L == Len(m)
    IN  IF L <= Significand THEN [m |-> m, e |-> e]
        ELSE LET drop == L - Significand
                 low == SubSeq(m, 1, drop)
                 q == SubSeq(m, drop + 1, L)
                 rest == \E i \in 1..(drop - 1) : low[i] = 1
                 up == low[drop] = 1 /\ (rest \/ q[1] = 1)
                 r == IF up THEN addBits(q, <<1>>, 0) ELSE q
             IN  IF Len(r) > Significand
                 THEN [m |-> Tail(r), e |-> e + drop + 1]
                 ELSE [m |-> r, e |-> e + drop]

\* The literal 0.1: the double 0x3FB999999999999A = 0x1999999999999A * 2^-56.
hexBits(h) ==
    [i \in 1..(4 * Len(h)) |->
        (h[Len(h) - ((i - 1) \div 4)] \div (2 ^ ((i - 1) % 4))) % 2]

doubleTenth ==
    [m |-> stripZeros(hexBits(<<1, 9, 9, 9, 9, 9, 9, 9, 9, 9, 9, 9, 9, 10>>)),
     e |-> -56]

\* n * d for a small natural n
doubleTimesNat(n, d) == roundDouble(mulSmall(d.m, n, 0), d.e)

\* 1 + d for 0 <= d with d.e <= 0
doubleOnePlus(d) ==
    IF d.m = << >> THEN [m |-> <<1>>, e |-> 0]
    ELSE roundDouble(
           addBits(d.m, [i \in 1..(1 - d.e) |-> IF i = 1 - d.e THEN 1 ELSE 0], 0),
           d.e)

\* Math.floor of a non-negative double
doubleFloor(d) ==
    IF d.e >= 0 THEN bitsToNat(d.m) * (2 ^ d.e)
    ELSE IF Len(d.m) <= -d.e THEN 0
    ELSE bitsToNat(SubSeq(d.m, 1 - d.e, Len(d.m)))


----------------------------------------------------------------------------
(* Bounds of the model                                                     *)

MaxUnits == 5          \* units ever created
MaxSeconds == 4        \* game time up to which update() is stepped
MaxCommands == 2       \* createUnit, moveUnit and attackUnit calls that succeed

----------------------------------------------------------------------------
(* Unit creation (engine.ts 193-231)                                       *)

\* const scalingFactor = 1 + (player.units.length * 0.1)
\* Faulty variant of scalingFactor: the roster size is left out.
scalingFactorFlat(n) == doubleOnePlus(doubleTimesNat(0, doubleTenth))

scalingFactor(n) == doubleOnePlus(doubleTimesNat(n, doubleTenth))

\* Math.floor(BASE_UNIT_COSTS[unitType][MONEY] * scalingFactor)
unitCost(unitType, n) ==
    doubleFloor(doubleTimesNat(BASE_UNIT_COSTS(unitType), scalingFactor(n)))

\* unitCost, evaluated once for every roster size the model can reach
unitCostOf == [t \in UnitType |-> [n \in 0..(MaxUnits + 1) |-> unitCost(t, n)]]

\* unitCost for the roster sizes up to PriceRosterMax + 1
PriceRosterMax == 40

priceAt == [t \in UnitType |-> [n \in 0..(PriceRosterMax + 1) |-> unitCost(t, n)]]

\* const unit: Unit = { id, ...unitStats, position, playerId, isDead: false, ... }
\* Faulty variant of newUnit: the unit literal starts with isDead set.
newUnitBornDead(unitType, position, playerId) ==
    [type |-> unitType,
     position |-> position,
     health |-> UNIT_STATS(unitType).health * HealthScale,
     playerId |-> playerId,
     targetId |-> NULL,
     path |-> << >>,
     isDead |-> TRUE,
     isMoving |-> FALSE,
     isAttacking |-> FALSE]

newUnit(unitType, position, playerId) ==
    [type |-> unitType,
     position |-> position,
     health |-> UNIT_STATS(unitType).health * HealthScale,
     playerId |-> playerId,
     targetId |-> NULL,
     path |-> << >>,
     isDead |-> FALSE,
     isMoving |-> FALSE,
     isAttacking |-> FALSE]

\* Faulty variant of createUnit: the price is deducted before the balance is checked.
createUnitDeductFirst(w, playerId, unitType, position) ==
    IF playerId \notin 1..Len(w.players) THEN [w |-> w, id |-> NULL]
    ELSE LET player == w.players[playerId]
             cost == unitCostOf[unitType][Len(player.units)]
             unitId == Len(w.units) + 1
             paid == [w.players EXCEPT ![playerId].money = @ - cost]
         IN  IF player.money < cost
             THEN [w |-> [players |-> paid, units |-> w.units], id |-> NULL]
             ELSE [w |-> [players |-> [paid EXCEPT ![playerId].units =
                                         Append(@, unitId)],
                          units |->
                            Append(w.units, newUnit(unitType, position, playerId))],
                   id |-> unitId]

\* Faulty variant of createUnit: the new unit is stored under the id of the
\* unit created last.
createUnitReusingLastId(w, playerId, unitType, position) ==
    IF playerId \notin 1..Len(w.players) THEN [w |-> w, id |-> NULL]
    ELSE LET player == w.players[playerId]
             cost == unitCostOf[unitType][Len(player.units)]
             unitId == Max(1, Len(w.units))
         IN  IF player.money < cost THEN [w |-> w, id |-> NULL]
             ELSE [w |-> [players |->
                            [w.players EXCEPT ![playerId] =
                               [@ EXCEPT !.money = @ - cost,
                                         !.units = Append(@, unitId)]],
                          units |->
                            IF w.units = << >>
                            THEN <<newUnit(unitType, position, playerId)>>
                            ELSE [w.units EXCEPT ![unitId] =
                                    newUnit(unitType, position, playerId)]],
                   id |-> unitId]

\* A world w is [players, units]; the result is the world after the call and
\* the returned unit id (NULL when the call fails).
createUnit(w, playerId, unitType, position) ==
    IF playerId \notin 1..Len(w.players) THEN [w |-> w, id |-> NULL]
    ELSE LET player == w.players[playerId]
             cost == unitCostOf[unitType][Len(player.units)]
             unitId == Len(w.units) + 1
         IN  IF player.money < cost THEN [w |-> w, id |-> NULL]
             ELSE [w |-> [players |->
                            [w.players EXCEPT ![playerId] =
                               [@ EXCEPT !.money = @ - cost,
                                         !.units = Append(@, unitId)]],
                          units |->
                            Append(w.units, newUnit(unitType, position, playerId))],
                   id |-> unitId]

----------------------------------------------------------------------------
(* Player admission (engine.ts 138-190)                                    *)

newPlayer(basePosition) ==
    [money |-> startingMoney, units |-> << >>, basePosition |-> basePosition]

addPlayer(w, basePosition) ==
    LET playerId == Len(w.players) + 1
        w0 == [players |-> Append(w.players, newPlayer(basePosition)),
               units |-> w.units]
        w1 == createUnit(w0, playerId, SOLDIER,
                         [x |-> basePosition.x - 20 * PosScale,
                          y |-> basePosition.y - 20 * PosScale]).w
        w2 == createUnit(w1, playerId, SOLDIER,
                         [x |-> basePosition.x + 20 * PosScale,
                          y |-> basePosition.y - 20 * PosScale]).w
        w3 == createUnit(w2, playerId, TANK,
                         [x |-> basePosition.x,
                          y |-> basePosition.y + 20 * PosScale]).w
    IN  [w |-> w3, id |-> playerId]

----------------------------------------------------------------------------
(* Move and attack commands (engine.ts 234-271, 416-425)                   *)

canUnitAttackTarget(attacker, target) ==
    IF target.type = HELICOPTER
    THEN UNIT_STATS(attacker.type).canAttackAir
    ELSE UNIT_STATS(attacker.type).canAttackGround

\* Faulty variant of moveUnit: the attack order is not cleared.
moveUnitKeepingTarget(us, unitId, targetPosition) ==
    IF unitId \notin 1..Len(us) \/ us[unitId].isDead
    THEN [us |-> us, ok |-> FALSE]
    ELSE [us |-> [us EXCEPT ![unitId] =
                    [@ EXCEPT !.path = <<targetPosition>>,
                              !.isMoving = TRUE]],
          ok |-> TRUE]

\* Faulty variant of moveUnit: a dead unit takes the order.
moveUnitEvenIfDead(us, unitId, targetPosition) ==
    IF unitId \notin 1..Len(us)
    THEN [us |-> us, ok |-> FALSE]
    ELSE [us |-> [us EXCEPT ![unitId] =
                    [@ EXCEPT !.path = <<targetPosition>>,
                              !.isMoving = TRUE,
                              !.isAttacking = FALSE,
                              !.targetId = NULL]],
          ok |-> TRUE]

\* The result is the unit map after the call and the returned boolean.
moveUnit(us, unitId, targetPosition) ==
    IF unitId \notin 1..Len(us) \/ us[unitId].isDead
    THEN [us |-> us, ok |-> FALSE]
    ELSE [us |-> [us EXCEPT ![unitId] =
                    [@ EXCEPT !.path = <<targetPosition>>,
                              !.isMoving = TRUE,
                              !.isAttacking = FALSE,
                              !.targetId = NULL]],
          ok |-> TRUE]

\* Faulty variant of attackUnit: the attacker's capabilities are not checked.
attackUnitAnyTarget(us, attackerId, targetId) ==
    IF \/ attackerId \notin 1..Len(us)
       \/ targetId \notin 1..Len(us)
    THEN [us |-> us, ok |-> FALSE]
    ELSE IF \/ us[attackerId].isDead
            \/ us[targetId].isDead
            \/ us[attackerId].playerId = us[targetId].playerId
    THEN [us |-> us, ok |-> FALSE]
    ELSE [us |-> [us EXCEPT ![attackerId] =
                    [@ EXCEPT !.targetId = targetId,
                              !.isAttacking = TRUE]],
          ok |-> TRUE]

\* Faulty variant of attackUnit: the attacker's march is called off.
attackUnitHalting(us, attackerId, targetId) ==
    IF \/ attackerId \notin 1..Len(us)
       \/ targetId \notin 1..Len(us)
    THEN [us |-> us, ok |-> FALSE]
    ELSE IF \/ us[attackerId].isDead
            \/ us[targetId].isDead
            \/ us[attackerId].playerId = us[targetId].playerId
    THEN [us |-> us, ok |-> FALSE]
    ELSE IF ~canUnitAttackTarget(us[attackerId], us[targetId])
    THEN [us |-> us, ok |-> FALSE]
    ELSE [us |-> [us EXCEPT ![attackerId] =
                    [@ EXCEPT !.targetId = targetId,
                              !.isAttacking = TRUE,
                              !.isMoving = FALSE,
                              !.path = << >>]],
          ok |-> TRUE]

attackUnit(us, attackerId, targetId) ==
    IF \/ attackerId \notin 1..Len(us)
       \/ targetId \notin 1..Len(us)
    THEN [us |-> us, ok |-> FALSE]
    ELSE IF \/ us[attackerId].isDead
            \/ us[targetId].isDead
            \/ us[attackerId].playerId = us[targetId].playerId
    THEN [us |-> us, ok |-> FALSE]
    ELSE IF ~canUnitAttackTarget(us[attackerId], us[targetId])
    THEN [us |-> us, ok |-> FALSE]
    ELSE [us |-> [us EXCEPT ![attackerId] =
                    [@ EXCEPT !.targetId = targetId,
                              !.isAttacking = TRUE]],
          ok |-> TRUE]


----------------------------------------------------------------------------
(* Geometry                                                                *)

\* floor of the square root, by Newton's iteration
RECURSIVE isqrtFrom(_, _)
isqrtFrom(n, x) ==
    LET y == (x + n \div x) \div 2
    IN  IF y >= x THEN x ELSE isqrtFrom(n, y)

isqrt(n) == IF n = 0 THEN 0 ELSE isqrtFrom(n, n)

\* dx * dx + dy * dy: the square of the distance Math.sqrt would return.
\* Comparisons of distances are made on the squares, which is exact.
sq(dx, dy) == dx * dx + dy * dy

\* Math.sqrt(dx * dx + dy * dy) in 1/PosScale units: exact when the
\* displacement is along an axis, rounded down to 1/PosScale otherwise.
sqrtDistance(dx, dy) ==
    IF dy = 0 THEN Abs(dx)
    ELSE IF dx = 0 THEN Abs(dy)
    ELSE isqrt(sq(dx, dy))

\* unit.speed * deltaTime * 60, in 1/PosScale units (deltaTime in ms)
moveDistanceOf(unit, deltaTime) ==
    UNIT_STATS(unit.type).speed2 * deltaTime
        * ((60 * PosScale) \div (2 * MsPerSecond))

\* Faulty variant of stepToward: the ratio is not capped at 1.
stepTowardUncapped(position, dx, dy, moveDistance) ==
    LET distance == sqrtDistance(dx, dy)
    IN  [x |-> position.x + (dx * moveDistance) \div distance,
         y |-> position.y + (dy * moveDistance) \div distance]

\* const ratio = Math.min(moveDistance / distance, 1);
\* position.x += dx * ratio; position.y += dy * ratio
stepToward(position, dx, dy, moveDistance) ==
    LET distance == sqrtDistance(dx, dy)
    IN  IF moveDistance >= distance
        THEN [x |-> position.x + dx, y |-> position.y + dy]
        ELSE [x |-> position.x + (dx * moveDistance) \div distance,
              y |-> position.y + (dy * moveDistance) \div distance]

----------------------------------------------------------------------------
(* Auto-targeting (engine.ts 373-413)                                      *)

\* Faulty variant of scanForEnemy: of the enemies at the same distance the
\* last one wins.
RECURSIVE scanForEnemyLastNearest(_, _, _, _, _)
scanForEnemyLastNearest(us, i, j, best, bestSq) ==
    IF j > Len(us) THEN best
    ELSE LET unit == us[i]
             otherUnit == us[j]
             d2 == sq(otherUnit.position.x - unit.position.x,
                      otherUnit.position.y - unit.position.y)
             detectionRange == UNIT_STATS(unit.type).range * 25 * PosScale
         IN  IF otherUnit.isDead \/ otherUnit.playerId = unit.playerId
             THEN scanForEnemyLastNearest(us, i, j + 1, best, bestSq)
             ELSE IF ~canUnitAttackTarget(unit, otherUnit)
             THEN scanForEnemyLastNearest(us, i, j + 1, best, bestSq)
             ELSE IF /\ d2 <= detectionRange * detectionRange
                     /\ (best = NULL \/ d2 <= bestSq)
             THEN scanForEnemyLastNearest(us, i, j + 1, j, d2)
             ELSE scanForEnemyLastNearest(us, i, j + 1, best, bestSq)

\* The forEach over Object.values(state.units), from otherUnit j on, with
\* nearestEnemy = best (NULL for null) at squared distance bestSq.
RECURSIVE scanForEnemy(_, _, _, _, _)
scanForEnemy(us, i, j, best, bestSq) ==
    IF j > Len(us) THEN best
    ELSE LET unit == us[i]
             otherUnit == us[j]
             d2 == sq(otherUnit.position.x - unit.position.x,
                      otherUnit.position.y - unit.position.y)
             detectionRange == UNIT_STATS(unit.type).range * 25 * PosScale
         IN  IF otherUnit.isDead \/ otherUnit.playerId = unit.playerId
             THEN scanForEnemy(us, i, j + 1, best, bestSq)
             ELSE IF ~canUnitAttackTarget(unit, otherUnit)
             THEN scanForEnemy(us, i, j + 1, best, bestSq)
             ELSE IF /\ d2 <= detectionRange * detectionRange
                     /\ (best = NULL \/ d2 < bestSq)
             THEN scanForEnemy(us, i, j + 1, j, d2)
             ELSE scanForEnemy(us, i, j + 1, best, bestSq)

\* Faulty variant of checkForAutoTarget: a moving unit looks for targets too.
checkForAutoTargetWhileMoving(us, i) ==
    IF us[i].isAttacking THEN us
    ELSE LET nearestEnemy == scanForEnemy(us, i, 1, NULL, 0)
         IN  IF nearestEnemy # NULL
             THEN attackUnit(us, i, nearestEnemy).us
             ELSE us

checkForAutoTarget(us, i) ==
    IF us[i].isAttacking \/ us[i].isMoving THEN us
    ELSE LET nearestEnemy == scanForEnemy(us, i, 1, NULL, 0)
         IN  IF nearestEnemy # NULL
             THEN attackUnit(us, i, nearestEnemy).us
             ELSE us

----------------------------------------------------------------------------
(* The per-unit step of updateUnits (engine.ts 287-370)                    *)

\* Faulty variant of moveAlongPath: the destination counts as reached as soon
\* as it is closer than one step.
moveAlongPathStoppingShort(us, i, deltaTime) ==
    LET unit == us[i]
    IN  IF ~(unit.isMoving /\ unit.path # << >>) THEN us
        ELSE LET targetPos == unit.path[1]
                 dx == targetPos.x - unit.position.x
                 dy == targetPos.y - unit.position.y
                 step == moveDistanceOf(unit, deltaTime)
             IN  IF sq(dx, dy) < step * step
                 THEN [us EXCEPT ![i] =
                         [@ EXCEPT !.path = Tail(@),
                                   !.isMoving = (Tail(unit.path) # << >>)]]
                 ELSE [us EXCEPT ![i].position =
                         stepToward(@, dx, dy, step)]

\* Faulty variant of moveAlongPath: the waypoint reached is popped and
\* isMoving is left set.
moveAlongPathStillMoving(us, i, deltaTime) ==
    LET unit == us[i]
    IN  IF ~(unit.isMoving /\ unit.path # << >>) THEN us
        ELSE LET targetPos == unit.path[1]
                 dx == targetPos.x - unit.position.x
                 dy == targetPos.y - unit.position.y
             IN  IF sq(dx, dy) < PosScale * PosScale
                 THEN [us EXCEPT ![i] = [@ EXCEPT !.path = Tail(@)]]
                 ELSE [us EXCEPT ![i].position =
                         stepToward(@, dx, dy, moveDistanceOf(unit, deltaTime))]

\* Handle movement (engine.ts 295-317)
moveAlongPath(us, i, deltaTime) ==
    LET unit == us[i]
    IN  IF ~(unit.isMoving /\ unit.path # << >>) THEN us
        ELSE LET targetPos == unit.path[1]
                 dx == targetPos.x - unit.position.x
                 dy == targetPos.y - unit.position.y
             IN  IF sq(dx, dy) < PosScale * PosScale
                 THEN [us EXCEPT ![i] =
                         [@ EXCEPT !.path = Tail(@),
                                   !.isMoving = (Tail(unit.path) # << >>)]]
                 ELSE [us EXCEPT ![i].position =
                         stepToward(@, dx, dy, moveDistanceOf(unit, deltaTime))]

\* Faulty variant of secondBoundary: damage is applied on every tick.
secondBoundaryEveryTick(time, deltaTime) == deltaTime >= 0

\* Math.floor(gameTime) > Math.floor(gameTime - deltaTime), gameTime being
\* the time after this tick's delta was added
secondBoundary(time, deltaTime) ==
    (time \div MsPerSecond) > ((time - deltaTime) \div MsPerSecond)

\* Faulty variant of damageOf: the target's defense is subtracted whole.
damageOfFullDefense(unit, target) ==
    Max(1 * HealthScale,
        UNIT_STATS(unit.type).attack * HealthScale
          - UNIT_STATS(target.type).defense * HealthScale)

\* Math.max(1, unit.attack - target.defense / 2), in 1/HealthScale points
damageOf(unit, target) ==
    Max(1 * HealthScale,
        UNIT_STATS(unit.type).attack * HealthScale
          - (UNIT_STATS(target.type).defense * HealthScale) \div 2)

\* Faulty variant of damaged: the health of a killed unit is not clamped to 0.
damagedNoClamp(target, damage) ==
    IF target.health - damage <= 0
    THEN [target EXCEPT !.health = @ - damage, !.isDead = TRUE]
    ELSE [target EXCEPT !.health = @ - damage]

\* target.health -= damage; if (target.health <= 0) { health = 0; isDead = true }
damaged(target, damage) ==
    IF target.health - damage <= 0
    THEN [target EXCEPT !.health = 0, !.isDead = TRUE]
    ELSE [target EXCEPT !.health = @ - damage]

\* Faulty variant of withoutUnit: the filtered array is not assigned back.
withoutUnitKeepingAll(roster, unitId) == roster

\* player.units = player.units.filter(u => u.id !== target.id)
withoutUnit(roster, unitId) == SelectSeq(roster, LAMBDA id : id # unitId)

\* Faulty variant of fight: a chase that ends within range is followed by a
\* strike in the same tick.
fightStrikingAfterChase(st, i, deltaTime, time) ==
    LET us == st.units
        unit == us[i]
    IN  IF ~(unit.isAttacking /\ unit.targetId # NULL) THEN st
        ELSE IF \/ unit.targetId \notin 1..Len(us)
                \/ us[unit.targetId].isDead
                \/ ~canUnitAttackTarget(unit, us[unit.targetId])
        THEN [st EXCEPT !.units[i] =
                [@ EXCEPT !.isAttacking = FALSE, !.targetId = NULL]]
        ELSE LET target == us[unit.targetId]
                 dx == target.position.x - unit.position.x
                 dy == target.position.y - unit.position.y
                 reach == UNIT_STATS(unit.type).range * 20 * PosScale
                 chased == IF sq(dx, dy) <= reach * reach THEN unit.position
                           ELSE stepToward(unit.position, dx, dy,
                                           moveDistanceOf(unit, deltaTime))
                 hit == damaged(target, damageOf(unit, target))
             IN  IF /\ sq(target.position.x - chased.x,
                          target.position.y - chased.y) <= reach * reach
                    /\ secondBoundary(time, deltaTime)
                 THEN [players |->
                         IF hit.isDead
                         THEN [st.players EXCEPT ![target.playerId].units =
                                 withoutUnit(@, unit.targetId)]
                         ELSE st.players,
                       units |-> [us EXCEPT ![unit.targetId] = hit,
                                            ![i].position = chased],
                       hits |-> st.hits \cup {<<i, unit.targetId>>}]
                 ELSE [st EXCEPT !.units[i].position = chased]

\* Faulty variant of fight: an attacker whose target is missing or dead
\* keeps its order.
fightKeepingLostTarget(st, i, deltaTime, time) ==
    LET us == st.units
        unit == us[i]
    IN  IF ~(unit.isAttacking /\ unit.targetId # NULL) THEN st
        ELSE IF \/ unit.targetId \notin 1..Len(us)
                \/ us[unit.targetId].isDead
        THEN st
        ELSE IF ~canUnitAttackTarget(unit, us[unit.targetId])
        THEN [st EXCEPT !.units[i] =
                [@ EXCEPT !.isAttacking = FALSE, !.targetId = NULL]]
        ELSE LET target == us[unit.targetId]
                 dx == target.position.x - unit.position.x
                 dy == target.position.y - unit.position.y
                 reach == UNIT_STATS(unit.type).range * 20 * PosScale
             IN  IF sq(dx, dy) <= reach * reach
                 THEN IF secondBoundary(time, deltaTime)
                      THEN LET hit == damaged(target, damageOf(unit, target))
                           IN  [players |->
                                  IF hit.isDead
                                  THEN [st.players EXCEPT ![target.playerId].units =
                                          withoutUnit(@, unit.targetId)]
                                  ELSE st.players,
                                units |-> [us EXCEPT ![unit.targetId] = hit],
                                hits |-> st.hits \cup {<<i, unit.targetId>>}]
                      ELSE st
                 ELSE [st EXCEPT !.units[i].position =
                         stepToward(@, dx, dy, moveDistanceOf(unit, deltaTime))]

\* Handle combat (engine.ts 320-368).  st is [players, units, hits].
fight(st, i, deltaTime, time) ==
    LET us == st.units
        unit == us[i]
    IN  IF ~(unit.isAttacking /\ unit.targetId # NULL) THEN st
        ELSE IF \/ unit.targetId \notin 1..Len(us)
                \/ us[unit.targetId].isDead
                \/ ~canUnitAttackTarget(unit, us[unit.targetId])
        THEN [st EXCEPT !.units[i] =
                [@ EXCEPT !.isAttacking = FALSE, !.targetId = NULL]]
        ELSE LET target == us[unit.targetId]
                 dx == target.position.x - unit.position.x
                 dy == target.position.y - unit.position.y
                 reach == UNIT_STATS(unit.type).range * 20 * PosScale
             IN  IF sq(dx, dy) <= reach * reach
                 THEN IF secondBoundary(time, deltaTime)
                      THEN LET hit == damaged(target, damageOf(unit, target))
                           IN  [players |->
                                  IF hit.isDead
                                  THEN [st.players EXCEPT ![target.playerId].units =
                                          withoutUnit(@, unit.targetId)]
                                  ELSE st.players,
                                units |-> [us EXCEPT ![unit.targetId] = hit],
                                hits |-> st.hits \cup {<<i, unit.targetId>>}]
                      ELSE st
                 ELSE [st EXCEPT !.units[i].position =
                         stepToward(@, dx, dy, moveDistanceOf(unit, deltaTime))]

\* Faulty variant of updateUnit: a unit killed earlier in the tick still
\* takes its turn.
updateUnitEvenIfDead(st, i, deltaTime, time) ==
    LET targeted == checkForAutoTarget(st.units, i)
        moved == moveAlongPath(targeted, i, deltaTime)
    IN  fight([st EXCEPT !.units = moved], i, deltaTime, time)

\* The body of the forEach for unit i
updateUnit(st, i, deltaTime, time) ==
    IF st.units[i].isDead THEN st
    ELSE LET targeted == checkForAutoTarget(st.units, i)
             moved == moveAlongPath(targeted, i, deltaTime)
         IN  fight([st EXCEPT !.units = moved], i, deltaTime, time)

RECURSIVE updateUnitsFrom(_, _, _, _)
updateUnitsFrom(st, i, deltaTime, time) ==
    IF i > Len(st.units) THEN st
    ELSE updateUnitsFrom(updateUnit(st, i, deltaTime, time), i + 1, deltaTime, time)

updateUnits(ps, us, deltaTime, time) ==
    updateUnitsFrom([players |-> ps, units |-> us, hits |-> {}], 1, deltaTime, time)


----------------------------------------------------------------------------
(* Resources (engine.ts 96-130, 428-470)                                   *)

\* One record of spawnResources
newResource(position) ==
    [position |-> position,
     amount |-> resourceAmount,
     respawnTime |-> respawnTime * MsPerSecond,
     isCollected |-> FALSE]

\* Faulty variant of respawned: the countdown is not reset when the resource respawns.
respawnedWithoutReset(resource, deltaTime) ==
    IF ~resource.isCollected THEN resource
    ELSE IF resource.respawnTime - deltaTime <= 0
    THEN [resource EXCEPT !.isCollected = FALSE,
                          !.amount = resourceAmount,
                          !.respawnTime = @ - deltaTime]
    ELSE [resource EXCEPT !.respawnTime = @ - deltaTime]

\* The body of updateResources' forEach
respawned(resource, deltaTime) ==
    IF ~resource.isCollected THEN resource
    ELSE IF resource.respawnTime - deltaTime <= 0
    THEN [resource EXCEPT !.isCollected = FALSE,
                          !.amount = resourceAmount,
                          !.respawnTime = respawnTime * MsPerSecond]
    ELSE [resource EXCEPT !.respawnTime = @ - deltaTime]

updateResources(rs, deltaTime) ==
    [r \in 1..Len(rs) |-> respawned(rs[r], deltaTime)]

\* Faulty variant of isNearbyCollector: any living unit collects, not only soldiers.
isNearbyUnitOfAnyType(unit, resource) ==
    /\ ~unit.isDead
    /\ sq(unit.position.x - resource.position.x,
          unit.position.y - resource.position.y)
         < (collectionRange * PosScale) * (collectionRange * PosScale)

\* The predicate of player.units.find
isNearbyCollector(unit, resource) ==
    /\ ~unit.isDead
    /\ unit.type = SOLDIER
    /\ sq(unit.position.x - resource.position.x,
          unit.position.y - resource.position.y)
         < (collectionRange * PosScale) * (collectionRange * PosScale)

hasNearbyUnit(player, us, resource) ==
    \E k \in 1..Len(player.units) : isNearbyCollector(us[player.units[k]], resource)

\* The inner forEach over Object.values(state.players), from player p on.
\* st is [players, resources, credits].
RECURSIVE collectByPlayers(_, _, _, _)
collectByPlayers(st, us, r, p) ==
    IF p > Len(st.players) THEN st
    ELSE IF hasNearbyUnit(st.players[p], us, st.resources[r])
    THEN collectByPlayers(
           [players |-> [st.players EXCEPT ![p].money = @ + st.resources[r].amount],
            resources |-> [st.resources EXCEPT ![r].isCollected = TRUE],
            credits |-> st.credits \cup {<<r, p>>}],
           us, r, p + 1)
    ELSE collectByPlayers(st, us, r, p + 1)

\* The outer forEach over Object.values(state.resources), from resource r on
RECURSIVE collectFrom(_, _, _)
collectFrom(st, us, r) ==
    IF r > Len(st.resources) THEN st
    ELSE IF st.resources[r].isCollected THEN collectFrom(st, us, r + 1)
    ELSE collectFrom(collectByPlayers(st, us, r, 1), us, r + 1)

collectResources(ps, us, rs) ==
    collectFrom([players |-> ps, resources |-> rs, credits |-> {}], us, 1)

----------------------------------------------------------------------------
(* Calls on the engine.  ret names the call; ret.ok is TRUE when it         *)
(* returned true or an id, FALSE when it returned false or null.  The id   *)
(* returned by a successful createUnit is Len(units'), the one returned by *)
(* addPlayer is Len(players').                                             *)

noTick == [hits |-> {}, credits |-> {}]

AddPlayer(basePosition) ==
    LET r == addPlayer([players |-> players, units |-> units], basePosition)
    IN  /\ players' = r.w.players
        /\ units' = r.w.units
        /\ ret' = [op |-> "addPlayer", ok |-> TRUE]
        /\ tick' = noTick
        /\ UNCHANGED <<resources, gameTime, issued, waited, gameRunning,
                     animationFrameId, frames>>

CreateUnit(playerId, unitType, position) ==
    LET r == createUnit([players |-> players, units |-> units],
                        playerId, unitType, position)
    IN  /\ players' = r.w.players
        /\ units' = r.w.units
        /\ ret' = [op |-> "createUnit", ok |-> (r.id # NULL)]
        /\ tick' = noTick
        /\ issued' = IF r.id # NULL THEN issued + 1 ELSE issued
        /\ UNCHANGED <<resources, gameTime, waited, gameRunning,
                     animationFrameId, frames>>

MoveUnit(unitId, targetPosition) ==
    LET r == moveUnit(units, unitId, targetPosition)
    IN  /\ units' = r.us
        /\ ret' = [op |-> "moveUnit", ok |-> r.ok]
        /\ tick' = noTick
        /\ issued' = IF r.ok THEN issued + 1 ELSE issued
        /\ UNCHANGED <<players, resources, gameTime, waited, gameRunning,
                     animationFrameId, frames>>

AttackUnit(attackerId, targetId) ==
    LET r == attackUnit(units, attackerId, targetId)
    IN  /\ units' = r.us
        /\ ret' = [op |-> "attackUnit", ok |-> r.ok]
        /\ tick' = noTick
        /\ issued' = IF r.ok THEN issued + 1 ELSE issued
        /\ UNCHANGED <<players, resources, gameTime, waited, gameRunning,
                     animationFrameId, frames>>

\* update() (engine.ts 274-284) when Date.now() - lastUpdateTime = deltaTime ms
updateEngine(deltaTime) ==
    LET time == gameTime + deltaTime
        u == updateUnits(players, units, deltaTime, time)
        rs == updateResources(resources, deltaTime)
        c == collectResources(u.players, u.units, rs)
    IN  /\ gameTime' = time
        /\ players' = c.players
        /\ units' = u.units
        /\ resources' = c.resources
        /\ ret' = [op |-> "update", ok |-> TRUE]
        /\ tick' = [hits |-> u.hits, credits |-> c.credits]
        /\ waited' = [r \in 1..Len(resources) |->
                        IF \E p \in 1..Len(players) : <<r, p>> \in c.credits THEN 0
                        ELSE IF c.resources[r].isCollected THEN waited[r] + deltaTime
                        ELSE 0]
        /\ UNCHANGED issued

\* update() called on the engine directly
Update(deltaTime) ==
    /\ updateEngine(deltaTime)
    /\ UNCHANGED <<gameRunning, animationFrameId, frames>>

----------------------------------------------------------------------------
(* The engine under arbitrary interleavings of commands and ticks          *)

\* resourceSpots: Math.random() positions inside the 100-unit margin
ResourceSpots == <<Pos(160, 100), Pos(160, 75)>>

\* addPlayer's Math.random() base positions inside the 100-unit margin: the
\* k-th player admitted is given the k-th of these
BaseSpots == <<Pos(120, 120), Pos(200, 120)>>

\* positions given to createUnit
SpawnPositions == {Pos(160, 100)}

\* positions given to moveUnit
MoveTargets == {Pos(100, 100), Pos(160, 100)}

\* elapsed wall-clock milliseconds between two update() calls
Deltas == {1000, 2000}

\* new GameEngine(mapWidth, mapHeight) (engine.ts 80-93)
Init ==
    /\ players = << >>
    /\ units = << >>
    /\ resources = [r \in 1..Len(ResourceSpots) |-> newResource(ResourceSpots[r])]
    /\ gameTime = 0
    /\ ret = [op |-> "constructor", ok |-> TRUE]
    /\ tick = noTick
    /\ issued = 0
    /\ waited = [r \in 1..Len(ResourceSpots) |-> 0]
    /\ gameRunning = TRUE
    /\ animationFrameId = 1
    /\ frames = [callbacks |-> << 1 >>, running |-> << >>, updates |-> 0]

\* The caller: GameController admits the players and then issues commands
\* for the units of the first player (part_002 25-29, 79, 268, 299, 356).
humanPlayer == 1

isOwnOrUnknown(unitId) ==
    IF unitId \in 1..Len(units) THEN units[unitId].playerId = humanPlayer ELSE TRUE

DoAddPlayer ==
    /\ gameTime = 0
    /\ Len(players) < Len(BaseSpots)
    /\ Len(units) + 2 <= MaxUnits
    /\ AddPlayer(BaseSpots[Len(players) + 1])

DoCreateUnit ==
    \E p \in {humanPlayer, Len(players) + 1}, t \in UnitType, pos \in SpawnPositions :
        /\ issued < MaxCommands
        /\ Len(units) < MaxUnits
        /\ CreateUnit(p, t, pos)

DoMoveUnit ==
    \E u \in 1..(Len(units) + 1), pos \in MoveTargets :
        /\ issued < MaxCommands
        /\ isOwnOrUnknown(u)
        /\ MoveUnit(u, pos)

DoAttackUnit ==
    \E a \in 1..(Len(units) + 1), t \in 1..(Len(units) + 1) :
        /\ issued < MaxCommands
        /\ isOwnOrUnknown(a)
        /\ AttackUnit(a, t)

DoUpdate ==
    \E d \in Deltas :
        /\ gameTime + d <= MaxSeconds * MsPerSecond
        /\ Update(d)

Next ==
    \/ DoAddPlayer
    \/ DoCreateUnit
    \/ DoMoveUnit
    \/ DoAttackUnit
    \/ DoUpdate

Spec == Init /\ [][Next]_vars

----------------------------------------------------------------------------
(* Frames shorter than a second: the players are admitted and the engine   *)
(* is stepped at varying frame rates                                       *)

SmallDeltas == {100, 200, 300, 500, 700, 900}

DoSmallUpdate ==
    \E d \in SmallDeltas :
        /\ gameTime + d <= MaxSeconds * MsPerSecond
        /\ Update(d)

NextThrottle ==
    \/ DoAddPlayer
    \/ DoSmallUpdate

SpecThrottle == Init /\ [][NextThrottle]_vars

----------------------------------------------------------------------------
(* Long runs: purchases and ticks over several respawn periods             *)

LongRunSeconds == 90

LongDeltas == {10000, 30000}

DoPurchase ==
    \E p \in {humanPlayer, Len(players) + 1}, t \in UnitType, pos \in SpawnPositions :
        /\ Len(units) < MaxUnits
        /\ CreateUnit(p, t, pos)

DoLongUpdate ==
    \E d \in LongDeltas :
        /\ gameTime + d <= LongRunSeconds * MsPerSecond
        /\ Update(d)

NextLongRun ==
    \/ DoAddPlayer
    \/ DoPurchase
    \/ DoLongUpdate

SpecLongRun == Init /\ [][NextLongRun]_vars

----------------------------------------------------------------------------
(* Marches: units are sent to positions and the game loop keeps stepping   *)
(* the engine, frame after frame, for as long as a living unit is moving   *)

MarchDeltas == {200, 1000}

someUnitMarching == \E u \in 1..Len(units) : units[u].isMoving /\ ~units[u].isDead

DoMarchUpdate ==
    \E d \in MarchDeltas :
        /\ someUnitMarching
        /\ Update(d)

NextMarch ==
    \/ DoAddPlayer
    \/ DoMoveUnit
    \/ DoMarchUpdate

\* requestAnimationFrame keeps calling the game loop: a frame eventually
\* elapses whenever one is due.  Within NextMarch the steps that change
\* gameTime are exactly the DoMarchUpdate steps, and update() is always
\* enabled, so this is weak fairness of DoMarchUpdate.
frameElapses ==
    /\ someUnitMarching
    /\ gameTime' \in {gameTime + d : d \in MarchDeltas}

SpecMarch == Init /\ [][NextMarch]_vars /\ WF_gameTime(frameElapses)

----------------------------------------------------------------------------
(* Duels: enemy units that stand 40 distance units apart are ordered to    *)
(* attack each other and the engine is stepped in ticks of one second      *)

DuelSeconds == 15
DuelDistance == 40

areDuellists(a, t) ==
    /\ units[a].playerId # units[t].playerId
    /\ sq(units[a].position.x - units[t].position.x,
          units[a].position.y - units[t].position.y)
         = (DuelDistance * PosScale) * (DuelDistance * PosScale)

DoDuelOrder ==
    \E a \in 1..Len(units), t \in 1..Len(units) :
        /\ issued < MaxCommands
        /\ areDuellists(a, t)
        /\ AttackUnit(a, t)

DoSecondTick ==
    /\ gameTime + MsPerSecond <= DuelSeconds * MsPerSecond
    /\ Update(MsPerSecond)

NextDuel ==
    \/ DoAddPlayer
    \/ DoDuelOrder
    \/ DoSecondTick

SpecDuel == Init /\ [][NextDuel]_vars

----------------------------------------------------------------------------
(* Melees: once all players are admitted, any unit is ordered to attack    *)
(* any enemy unit at any time while the engine is stepped in ticks of one  *)
(* second, long enough for soldiers to kill each other                     *)

MeleeSeconds == 15
MeleeOrders == 1

DoMeleeOrder ==
    \E a \in 1..Len(units), t \in 1..Len(units) :
        /\ Len(players) = Len(BaseSpots)
        /\ issued < MeleeOrders
        /\ units[a].playerId # units[t].playerId
        /\ AttackUnit(a, t)

DoMeleeTick ==
    /\ gameTime + MsPerSecond <= MeleeSeconds * MsPerSecond
    /\ Update(MsPerSecond)

NextMelee ==
    \/ DoAddPlayer
    \/ DoMeleeOrder
    \/ DoMeleeTick

SpecMelee == Init /\ [][NextMelee]_vars

----------------------------------------------------------------------------
(* Chases: once all players are admitted, a unit is ordered to attack an   *)
(* enemy unit, near or far, and the engine is stepped in short and long    *)
(* frames                                                                  *)

ChaseSeconds == 3
ChaseOrders == 1

ChaseDeltas == {300, 1000}

DoChaseOrder ==
    \E a \in 1..Len(units), t \in 1..Len(units) :
        /\ Len(players) = Len(BaseSpots)
        /\ issued < ChaseOrders
        /\ units[a].playerId # units[t].playerId
        /\ AttackUnit(a, t)

DoChaseTick ==
    \E d \in ChaseDeltas :
        /\ gameTime + d <= ChaseSeconds * MsPerSecond
        /\ Update(d)

NextChase ==
    \/ DoAddPlayer
    \/ DoChaseOrder
    \/ DoChaseTick

SpecChase == Init /\ [][NextChase]_vars

----------------------------------------------------------------------------
(* Walks: the first soldier, at (100, 100), is sent to waypoints on and    *)
(* off its line, to where it stands and to half a distance unit from       *)
(* there, and the engine is stepped in frames of 0 ms, 0.2 s and 1 s       *)

WalkSeconds == 2
WalkOrders == 1

\* positions given to moveUnit
WalkTargets ==
    {Pos(100, 100), Pos(160, 100), Pos(130, 60),
     [x |-> 100 * PosScale + PosScale \div 2, y |-> 100 * PosScale]}

\* elapsed wall-clock milliseconds between two update() calls
WalkDeltas == {0, 200, 1000}

DoWalkOrder ==
    \E pos \in WalkTargets :
        /\ Len(players) = Len(BaseSpots)
        /\ issued < WalkOrders
        /\ MoveUnit(1, pos)

DoWalkTick ==
    \E d \in WalkDeltas :
        /\ Len(players) = Len(BaseSpots)
        /\ gameTime + d <= WalkSeconds * MsPerSecond
        /\ Update(d)

NextWalk ==
    \/ DoAddPlayer
    \/ DoWalkOrder
    \/ DoWalkTick

SpecWalk == Init /\ [][NextWalk]_vars

----------------------------------------------------------------------------
(* The driver: GameController (part_002) admits the players, runs the game *)
(* loop while gameRunning, buys units for the human player and restarts    *)
(* the game on a click once it is over                                     *)

\* player.resources[ResourceType.SUPPLIES] >= 50: ResourceType has no
\* SUPPLIES member (types.ts 13-15), the wallet holds MONEY only, and
\* undefined >= 50 is false
hasSupplies(player) == FALSE

\* the filter of checkGameOver (part_002 367-370); player.units holds the
\* living units only
isActivePlayer(player) ==
    \/ Len(player.units) > 0
    \/ (player.money >= 100 /\ hasSupplies(player))

activePlayers(ps) == {p \in 1..Len(ps) : isActivePlayer(ps[p])}

\* requestAnimationFrame and cancelAnimationFrame: the browser keeps the
\* callbacks requested for the next frame in request order (callbacks), and
\* during a frame those of that frame not yet invoked (running). Handles
\* are compared for equality only, so a new handle is the least number that
\* is neither pending nor held in animationFrameId.
handlesOf(fs) == {fs.callbacks[k] : k \in 1..Len(fs.callbacks)}
                    \cup {fs.running[k] : k \in 1..Len(fs.running)}

newHandle(fs, held) ==
    CHOOSE h \in 1..(Cardinality(handlesOf(fs) \cup {held}) + 1) :
        /\ h \notin handlesOf(fs) \cup {held}
        /\ \A g \in 1..(h - 1) : g \in handlesOf(fs) \cup {held}

requestAnimationFrame(fs, h) == [fs EXCEPT !.callbacks = Append(@, h)]

dropHandle(s, h) == SelectSeq(s, LAMBDA g : g # h)

cancelAnimationFrame(fs, h) ==
    [fs EXCEPT !.callbacks = dropHandle(@, h), !.running = dropHandle(@, h)]

\* startGameLoop (part_002 194-214) after the definition of the closure:
\* this.animationFrameId = requestAnimationFrame(gameLoop)
startGameLoop(fs, held) ==
    LET h == newHandle(fs, held)
    IN  [frames |-> requestAnimationFrame(fs, h), animationFrameId |-> h]

\* checkGameOver (part_002 365-385) on the players after the update: when
\* at most one player is active it stops the game and cancels the handle
\* held in animationFrameId
checkGameOver(ps, fs, held) ==
    IF Cardinality(activePlayers(ps)) <= 1
    THEN [gameRunning |-> FALSE,
          frames |-> IF held # NULL THEN cancelAnimationFrame(fs, held) ELSE fs,
          animationFrameId |-> NULL]
    ELSE [gameRunning |-> TRUE, frames |-> fs, animationFrameId |-> held]

\* one call of gameLoop (part_002 195-209) with the callbacks fs left after
\* the browser took this one out: nothing when the game is not running,
\* otherwise update, checkGameOver, and the request for the next frame
GameLoop(fs, deltaTime) ==
    IF ~gameRunning
    THEN /\ frames' = fs
         /\ UNCHANGED <<players, units, resources, gameTime, ret, tick,
                        issued, waited, gameRunning, animationFrameId>>
    ELSE /\ updateEngine(deltaTime)
         /\ \E over \in {checkGameOver(players', [fs EXCEPT !.updates = @ + 1],
                                       animationFrameId)} :
            \E next \in {startGameLoop(over.frames, over.animationFrameId)} :
                /\ gameRunning' = over.gameRunning
                /\ frames' = next.frames
                /\ animationFrameId' = next.animationFrameId

\* GameController.createUnit (part_002 44-80): the unit appears at an offset
\* of less than 30 from the human player's base in each coordinate
BuildOffsets == {[x |-> 25 * PosScale, y |-> (0 - 20) * PosScale]}

ControllerCreateUnit(unitType, offset) ==
    /\ gameRunning
    /\ humanPlayer \in 1..Len(players)
    /\ CreateUnit(humanPlayer, unitType,
                  [x |-> players[humanPlayer].basePosition.x + offset.x,
                   y |-> players[humanPlayer].basePosition.y + offset.y])

\* restartGame (part_002 387-403), reached from the mouseup handler when the
\* game is not running (part_002 120-125): a new engine with the players
\* admitted again, and startGameLoop
RestartGame ==
    LET w0 == [players |-> << >>, units |-> << >>]
        w1 == addPlayer(w0, BaseSpots[1]).w
        w2 == addPlayer(w1, BaseSpots[2]).w
        next == startGameLoop(frames, animationFrameId)
    IN  /\ ~gameRunning
        /\ players' = w2.players
        /\ units' = w2.units
        /\ resources' = [r \in 1..Len(ResourceSpots) |-> newResource(ResourceSpots[r])]
        /\ gameTime' = 0
        /\ ret' = [op |-> "restartGame", ok |-> TRUE]
        /\ tick' = noTick
        /\ waited' = [r \in 1..Len(ResourceSpots) |-> 0]
        /\ gameRunning' = TRUE
        /\ frames' = next.frames
        /\ animationFrameId' = next.animationFrameId
        /\ UNCHANGED issued

DriverSeconds == 12

\* The browser starts an animation frame: the callbacks requested so far
\* are the ones this frame invokes. Frames come once the constructor has
\* returned, and a second apart while the game runs.
BeginFrame ==
    /\ Len(players) = Len(BaseSpots)
    /\ frames.running = << >>
    /\ frames.callbacks # << >>
    /\ gameRunning => gameTime + MsPerSecond <= DriverSeconds * MsPerSecond
    /\ frames' = [callbacks |-> << >>, running |-> frames.callbacks,
                  updates |-> 0]
    /\ UNCHANGED <<players, units, resources, gameTime, ret, tick, issued,
                   waited, gameRunning, animationFrameId>>

\* The browser invokes the next callback of the frame. Date.now() moves on
\* between frames and not between two callbacks of one frame.
DoGameLoop ==
    /\ frames.running # << >>
    /\ GameLoop([frames EXCEPT !.running = Tail(@)],
                IF frames.updates = 0 THEN MsPerSecond ELSE 0)

\* Input events are dispatched between frames, never inside one
DoControllerCreateUnit ==
    \E t \in UnitType, offset \in BuildOffsets :
        /\ Len(players) = Len(BaseSpots)
        /\ frames.running = << >>
        /\ issued < MaxCommands
        /\ ControllerCreateUnit(t, offset)

DoMouseUp ==
    /\ frames.running = << >>
    /\ RestartGame

NextDriver ==
    \/ DoAddPlayer
    \/ BeginFrame
    \/ DoGameLoop
    \/ DoControllerCreateUnit
    \/ DoMouseUp

SpecDriver == Init /\ [][NextDriver]_vars

----------------------------------------------------------------------------
(* Armies: once all players are admitted (part_002 25-29), every player   *)
(* buys tanks and helicopters, over several respawn periods, these are     *)
(* ordered to attack any unit, and any unit is ordered to move at the      *)
(* start and again once it has been killed                                 *)

ArmyUnits == 6
ArmyOrders == 3
ArmySeconds == 120

HeavyTypes == {TANK, HELICOPTER}

DoBuy ==
    \E p \in 1..(Len(players) + 1), t \in HeavyTypes, pos \in SpawnPositions :
        /\ Len(players) = Len(BaseSpots)
        /\ Len(units) < ArmyUnits
        /\ issued < ArmyOrders - 1
        /\ CreateUnit(p, t, pos)

isHeavyOrUnknown(unitId) ==
    IF unitId \in 1..Len(units) THEN units[unitId].type \in HeavyTypes ELSE TRUE

DoOrderAttack ==
    \E a \in 1..(Len(units) + 1), t \in 1..(Len(units) + 1) :
        /\ Len(players) = Len(BaseSpots)
        /\ issued < ArmyOrders
        /\ isHeavyOrUnknown(a)
        /\ AttackUnit(a, t)

DoRespawnPeriod ==
    /\ gameTime + respawnTime * MsPerSecond <= ArmySeconds * MsPerSecond
    /\ Update(respawnTime * MsPerSecond)

DoOrderMove ==
    \E u \in 1..Len(units), pos \in MoveTargets :
        /\ Len(players) = Len(BaseSpots)
        /\ (gameTime = 0 \/ units[u].isDead)
        /\ issued < ArmyOrders - 1
        /\ MoveUnit(u, pos)

NextArmy ==
    \/ DoAddPlayer
    \/ DoBuy
    \/ DoOrderAttack
    \/ DoOrderMove
    \/ DoRespawnPeriod

SpecArmy == Init /\ [][NextArmy]_vars


----------------------------------------------------------------------------
(* Properties                                                              *)

Units == 1..Len(units)
Players == 1..Len(players)
Resources == 1..Len(resources)

isUpdateStep == ret'.op = "update"

\* the whole-second boundaries of game time crossed by a step
boundariesCrossed == (gameTime' \div MsPerSecond) - (gameTime \div MsPerSecond)

withinSq(a, b, radius) ==
    sq(a.x - b.x, a.y - b.y) <= (radius * PosScale) * (radius * PosScale)

RECURSIVE sumOver(_, _)
sumOver(S, f) ==
    IF S = {} THEN 0
    ELSE LET e == CHOOSE e \in S : TRUE IN f[e] + sumOver(S \ {e}, f)

----------------------------------------------------------------------------
\* C1: immediately after addPlayer returns, the new player owns exactly two
\* soldiers and one tank (the starter roster).
C1_StarterRoster ==
    [][ret'.op = "addPlayer" =>
         LET roster == players'[Len(players')].units
         IN  /\ Len(roster) = 3
             /\ [k \in 1..3 |-> units'[roster[k]].type] = <<SOLDIER, SOLDIER, TANK>>
      ]_vars

----------------------------------------------------------------------------
\* C2: a successful createUnit deducts floor(base price * (1 + N * 0.1)),
\* N the roster size before the call, which in exact arithmetic is
\* floor(base price * (10 + N) / 10).
C2_ScaledPrice ==
    [][\A p \in Players, t \in UnitType, pos \in SpawnPositions :
         (CreateUnit(p, t, pos) /\ ret'.ok)
         => players'[p].money
              = players[p].money
                - (BASE_UNIT_COSTS(t) * (10 + Len(players[p].units))) \div 10
      ]_vars

----------------------------------------------------------------------------
\* C3: createUnit for an unknown player, or for a player whose balance is
\* below the scaled price, returns null and changes no balance, no roster
\* and not the unit map.
C3_FailedCreateUnitChangesNothing ==
    [][\A p \in 1..(Len(players) + 1), t \in UnitType, pos \in SpawnPositions :
         ( /\ CreateUnit(p, t, pos)
           /\ IF p \in Players
              THEN players[p].money < unitCostOf[t][Len(players[p].units)]
              ELSE TRUE )
         => /\ ~ret'.ok
            /\ players' = players
            /\ units' = units
            /\ resources' = resources
      ]_vars

\* a createUnit call has just failed for a player who cannot afford a tank
C3_Witness ==
    /\ ret.op = "createUnit"
    /\ ~ret.ok
    /\ players # << >>
    /\ players[1].money < unitCostOf[TANK][Len(players[1].units)]

----------------------------------------------------------------------------
\* C4: within one tick each resource is credited to at most one player.
C4_OneCreditPerResource ==
    \A r \in Resources : Cardinality({c \in tick.credits : c[1] = r}) <= 1

----------------------------------------------------------------------------
----------------------------------------------------------------------------
\* C6: health is never negative; the damage that brings it to 0 or below
\* clamps it to 0, marks the unit dead once (a dead unit is never damaged
\* again and stays dead), removes it from its player's roster and leaves its
\* record in the unit map.
healthConsistent(us, ps) ==
    \A u \in 1..Len(us) :
        /\ us[u].health >= 0
        /\ us[u].isDead <=> us[u].health = 0
        /\ us[u].isDead =>
             \A k \in 1..Len(ps[us[u].playerId].units) :
                 ps[us[u].playerId].units[k] # u

\* the attackers that damaged unit u in a tick with damage applications hits
hittersOf(hits, u) == {h[1] : h \in {g \in hits : g[2] = u}}

damageTo(us, hits, u) ==
    sumOver(hittersOf(hits, u), [a \in hittersOf(hits, u) |-> damageOf(us[a], us[u])])

lastHitter(hits, u) ==
    CHOOSE a \in hittersOf(hits, u) : \A b \in hittersOf(hits, u) : b <= a

deathIsByDamage(us, us2, hits, u) ==
    /\ us[u].isDead => (us2[u].isDead /\ hittersOf(hits, u) = {} /\ us2[u] = us[u])
    /\ ~us[u].isDead =>
         /\ us2[u].health = Max(0, us[u].health - damageTo(us, hits, u))
         /\ us2[u].isDead =>
              /\ hittersOf(hits, u) # {}
              /\ us[u].health - damageTo(us, hits, u)
                   + damageOf(us[lastHitter(hits, u)], us[u]) > 0

C6_HealthAndDeath ==
    [][/\ healthConsistent(units', players')
       /\ Len(units') >= Len(units)
       /\ \A u \in Units : deathIsByDamage(units, units', tick'.hits, u)
      ]_vars

\* a unit has been killed
C6_Witness ==
    \E u \in Units : units[u].isDead /\ units[u].health = 0


----------------------------------------------------------------------------
\* An attacker that goes through a tick engaged: before the tick it is alive,
\* attacking and not moving, its target is alive and within range * 20; after
\* the tick both are alive and neither has moved.
staysEngaged(a) ==
    LET t == units[a].targetId
    IN  /\ ~units[a].isDead /\ units[a].isAttacking /\ ~units[a].isMoving
        /\ t \in Units
        /\ ~units[t].isDead
        /\ withinSq(units[a].position, units[t].position,
                    UNIT_STATS(units[a].type).range * 20)
        /\ ~units'[a].isDead /\ ~units'[t].isDead
        /\ units'[a].position = units[a].position
        /\ units'[t].position = units[t].position

hitsBy(hits, a) == Cardinality({h \in hits : h[1] = a})

\* the health unit u has lost is exactly n hits of attacker a
hasTakenHits(a, u, n) ==
    UNIT_STATS(units[u].type).maxHealth * HealthScale - units[u].health
        = n * damageOf(units[a], units[u])

C8_OneHitPerSecondBoundary ==
    [][isUpdateStep =>
         \A a \in Units :
             staysEngaged(a) => hitsBy(tick'.hits, a) = boundariesCrossed
      ]_vars

----------------------------------------------------------------------------
creditedIn(credits, r) == \E h \in credits : h[1] = r

\* C9: a collected resource stays collected, and is credited to nobody,
\* while the deltas of the ticks since its collection sum to less than 30 s;
\* in the tick that brings the sum to 30 s it becomes available with amount
\* 150 and countdown 30 s; an available resource always has both values.
C9_RespawnAfterThirtySeconds ==
    /\ [][isUpdateStep =>
            \A r \in Resources :
                resources[r].isCollected =>
                    IF waited[r] + (gameTime' - gameTime) < respawnTime * MsPerSecond
                    THEN /\ resources'[r].isCollected
                         /\ ~creditedIn(tick'.credits, r)
                    ELSE /\ resources'[r].amount = resourceAmount
                         /\ resources'[r].respawnTime = respawnTime * MsPerSecond
                         /\ (resources'[r].isCollected => creditedIn(tick'.credits, r))
         ]_vars
    /\ [](\A r \in Resources :
            ~resources[r].isCollected =>
                /\ resources[r].amount = resourceAmount
                /\ resources[r].respawnTime = respawnTime * MsPerSecond)

\* a resource has respawned after 30 s of 10 s ticks and, a soldier still
\* standing near it, has been collected a second time in the same tick
C9_Witness ==
    /\ gameTime = 40000
    /\ creditedIn(tick.credits, 1)
    /\ resources[1].isCollected
    /\ resources[1].respawnTime = respawnTime * MsPerSecond
    /\ waited[1] = 0

----------------------------------------------------------------------------
\* C10: a player is credited for a resource in a tick only if one of its
\* living soldiers is within the collection radius of it, and a resource
\* becomes collected only by such a credit; units of other types never count.
hasLivingSoldierNear(ps, us, p, position) ==
    \E k \in 1..Len(ps[p].units) :
        LET u == us[ps[p].units[k]]
        IN  /\ ~u.isDead
            /\ u.type = SOLDIER
            /\ sq(u.position.x - position.x, u.position.y - position.y)
                 < (collectionRange * PosScale) * (collectionRange * PosScale)

C10_OnlySoldiersCollect ==
    [][/\ \A c \in tick'.credits :
            hasLivingSoldierNear(players', units', c[2], resources'[c[1]].position)
       /\ \A r \in Resources :
            (~resources[r].isCollected /\ resources'[r].isCollected)
              => \E c \in tick'.credits : c[1] = r
       /\ \A p \in Players :
            players'[p].money > players[p].money
              => \E c \in tick'.credits : c[2] = p
      ]_vars

\* after a tick, a living tank or helicopter stands within the collection
\* radius of a resource that is still uncollected
C10_Witness ==
    /\ ret.op = "update"
    /\ \E u \in Units, r \in Resources :
         /\ ~units[u].isDead
         /\ units[u].type # SOLDIER
         /\ ~resources[r].isCollected
         /\ sq(units[u].position.x - resources[r].position.x,
               units[u].position.y - resources[r].position.y)
              < (collectionRange * PosScale) * (collectionRange * PosScale)

----------------------------------------------------------------------------
canAttack(us, a, t) ==
    IF us[t].type = HELICOPTER
    THEN us[a].type \in {SOLDIER, HELICOPTER}
    ELSE TRUE

\* C11: attackUnit returns true exactly when attacker and target exist, are
\* alive, belong to different players and the attacker's capability covers
\* the target (only a tank cannot attack a helicopter); otherwise it returns
\* false and nothing of the world changes.
C11_AttackUnitAcceptance ==
    [][\A a \in 1..(Len(units) + 1), t \in 1..(Len(units) + 1) :
         AttackUnit(a, t) =>
            /\ ret'.ok <=> ( /\ a \in Units /\ t \in Units
                             /\ ~units[a].isDead /\ ~units[t].isDead
                             /\ units[a].playerId # units[t].playerId
                             /\ canAttack(units, a, t) )
            /\ ~ret'.ok => ( /\ players' = players /\ units' = units
                             /\ resources' = resources /\ gameTime' = gameTime )
            /\ ret'.ok => ( /\ units'[a].isAttacking /\ units'[a].targetId = t
                            /\ \A u \in Units \ {a} : units'[u] = units[u] )
      ]_vars

\* a living tank has just been refused an attack on a living enemy helicopter
C11_Witness ==
    /\ ret.op = "attackUnit" /\ ~ret.ok
    /\ \E a \in Units, t \in Units :
          /\ units[a].type = TANK /\ units[t].type = HELICOPTER
          /\ ~units[a].isDead /\ ~units[t].isDead
          /\ units[a].playerId # units[t].playerId

----------------------------------------------------------------------------
\* C12: moveUnit on an existing living unit returns true and leaves it with
\* the path <<target>>, moving, not attacking and without target, whatever
\* its orders were; on an unknown or dead unit it returns false and changes
\* nothing.
C12_MoveUnitOverwrites ==
    [][\A u \in 1..(Len(units) + 1), pos \in MoveTargets :
         MoveUnit(u, pos) =>
            IF u \in Units /\ ~units[u].isDead
            THEN /\ ret'.ok
                 /\ units'[u].path = <<pos>>
                 /\ units'[u].isMoving /\ ~units'[u].isAttacking
                 /\ units'[u].targetId = NULL
                 /\ units'[u].position = units[u].position
                 /\ \A v \in Units \ {u} : units'[v] = units[v]
                 /\ players' = players /\ resources' = resources
            ELSE /\ ~ret'.ok
                 /\ players' = players /\ units' = units
                 /\ resources' = resources /\ gameTime' = gameTime
      ]_vars

\* a unit that was attacking has been given a move order as the second
\* successful command of the run
C12_Witness ==
    /\ ret.op = "moveUnit" /\ ret.ok
    /\ issued = 2
    /\ \E u \in Units :
          /\ units[u].isMoving /\ Len(units[u].path) = 1
          /\ ~units[u].isAttacking /\ units[u].health < UNIT_STATS(units[u].type).maxHealth * HealthScale

----------------------------------------------------------------------------
hasMarchOrder(u, pos) ==
    /\ u \in Units
    /\ ~units[u].isDead
    /\ units[u].isMoving /\ ~units[u].isAttacking
    /\ units[u].path = <<pos>>

hasArrived(u, pos) ==
    /\ u \in Units
    /\ ~units[u].isMoving
    /\ units[u].path = << >>
    /\ withinSq(units[u].position, pos, 1)

\* C13: a living unit with a move order (moving, one waypoint, not
\* attacking) is eventually within one distance unit of the waypoint, not
\* moving and with an empty path, unless it is killed, starts attacking or
\* is given another order first.
C13_MoveOrderEventuallyArrives ==
    \A u \in 1..MaxUnits : \A pos \in MoveTargets :
        hasMarchOrder(u, pos)
            ~> ( \/ hasArrived(u, pos)
                 \/ (u \in Units /\ (units[u].isDead \/ units[u].isAttacking))
                 \/ (u \in Units /\ units[u].isMoving /\ units[u].path # <<pos>>) )

\* the second soldier has walked from (140, 100) to (160, 100) and stopped
C13_Witness ==
    /\ ret.op = "update"
    /\ Len(units) >= 2
    /\ units[2].position = Pos(160, 100)
    /\ hasArrived(2, Pos(160, 100))
    /\ ~units[2].isDead

----------------------------------------------------------------------------
\* C14: at the end of the tick whose movement step brings a moving unit
\* from a distance of 1 or more to less than 1 from its last waypoint, the
\* unit is no longer moving.
C14_StopsOnArrivalTick ==
    [][isUpdateStep =>
         \A u \in Units :
             ( /\ ~units[u].isDead /\ units[u].isMoving
               /\ Len(units[u].path) = 1
               /\ ~withinSq(units[u].position, units[u].path[1], 1)
               /\ withinSq(units'[u].position, units[u].path[1], 1) )
             => ~units'[u].isMoving
      ]_vars

----------------------------------------------------------------------------
\* C15: isDead changes from false to true only in a tick, by a damage
\* application on that unit; units are created alive; a dead unit is never
\* alive again, whatever command or tick follows.
C15_DeadIsTerminal ==
    [][/\ \A u \in Units :
            /\ units[u].isDead => units'[u].isDead
            /\ (~units[u].isDead /\ units'[u].isDead)
                 => (isUpdateStep /\ hittersOf(tick'.hits, u) # {})
       /\ \A u \in (1..Len(units')) \ Units : ~units'[u].isDead
      ]_vars

\* a command has been issued against a unit that is dead
C15_Witness ==
    /\ ret.op = "attackUnit"
    /\ \E u \in Units : units[u].isDead

----------------------------------------------------------------------------
resolves(us, ps) ==
    /\ \A u \in 1..Len(us) :
          us[u].targetId # NULL => us[u].targetId \in 1..Len(us)
    /\ \A p \in 1..Len(ps) : \A k \in 1..Len(ps[p].units) :
          ps[p].units[k] \in 1..Len(us)

\* C16: a successful createUnit adds exactly one new id to the unit map, no
\* other command and no tick changes the set of ids, and the record of an id
\* stays that of the same unit; target references and rosters always resolve.
C16_UnitMapOnlyGrows ==
    [][/\ \A u \in Units :
            /\ u \in 1..Len(units')
            /\ units'[u].type = units[u].type
            /\ units'[u].playerId = units[u].playerId
       /\ resolves(units', players')
       /\ \A p \in 1..(Len(players) + 1), t \in UnitType, pos \in SpawnPositions :
            CreateUnit(p, t, pos) =>
                IF ret'.ok
                THEN /\ Len(units') = Len(units) + 1
                     /\ units'[Len(units')].playerId = p
                     /\ players'[p].units = Append(players[p].units, Len(units'))
                ELSE Len(units') = Len(units)
       /\ ret'.op \in {"moveUnit", "attackUnit", "update"} => Len(units') = Len(units)
      ]_vars

\* a unit bought by createUnit is in the map, and an attacker still refers
\* to the unit it has just killed
C16_Witness ==
    /\ Len(units) = MaxUnits
    /\ \E a \in Units :
          /\ units[a].targetId # NULL
          /\ units[units[a].targetId].isDead

----------------------------------------------------------------------------
\* soldier against soldier: max(1, 10 - 5 / 2) = 7.5 points
soldierHit ==
    Max(HealthScale,
        UNIT_STATS(SOLDIER).attack * HealthScale - UNIT_STATS(SOLDIER).defense)

inDuel(a, b) ==
    /\ units[a].type = SOLDIER /\ units[b].type = SOLDIER
    /\ ~units[a].isDead /\ ~units[b].isDead
    /\ areDuellists(a, b)
    /\ units[a].isAttacking /\ units[a].targetId = b
    /\ units[b].isAttacking /\ units[b].targetId = a

\* C17: two enemy soldiers 40 units apart that attack each other, stepped in
\* 1-second ticks, each lose 7.5 health in every tick both survive; the
\* first tick that does not leave both alive leaves one of them dead at
\* health 0, and with both players admitted at time 0 that tick is the 14th.
C17_SoldierDuel ==
    /\ [][isUpdateStep =>
            \A a \in Units, b \in Units :
                (a < b /\ inDuel(a, b)) =>
                    IF ~units'[a].isDead /\ ~units'[b].isDead
                    THEN /\ units'[a].health = units[a].health - soldierHit
                         /\ units'[b].health = units[b].health - soldierHit
                         /\ units'[a].health > 0 /\ units'[b].health > 0
                    ELSE \E d \in {a, b} :
                            /\ units'[d].isDead /\ units'[d].health = 0
                            /\ units[d].health <= soldierHit
         ]_vars
    /\ [](Len(players) = 2 =>
            /\ gameTime < 14 * MsPerSecond =>
                 /\ ~units[2].isDead /\ ~units[3].isDead
                 /\ units[3].health
                      = UNIT_STATS(SOLDIER).health * HealthScale
                          - (gameTime \div MsPerSecond) * soldierHit
                 /\ units[2].health = units[3].health
            /\ gameTime >= 14 * MsPerSecond =>
                 /\ units[3].isDead /\ units[3].health = 0
                 /\ ~units[2].isDead)

\* the duel of soldiers 2 and 3, ordered at time 0, has ended in its 14th
\* second with soldier 3 dead
C17_Witness ==
    /\ Len(players) = 2
    /\ issued = 2
    /\ gameTime = 14 * MsPerSecond
    /\ <<2, 3>> \in tick.hits
    /\ units[3].isDead /\ units[3].health = 0
    /\ units[2].health = UNIT_STATS(SOLDIER).health * HealthScale - 13 * soldierHit

----------------------------------------------------------------------------
\* C18: for every unit type and roster size N the price at roster size N + 1
\* is strictly greater than the price at roster size N; a successful
\* createUnit charges the price of the buyer's roster size, which is less
\* than what the same purchase costs the buyer next.
C18_PriceStrictlyGrows ==
    /\ [](\A t \in UnitType : \A n \in 0..PriceRosterMax :
            priceAt[t][n + 1] > priceAt[t][n])
    /\ [][\A p \in Players, t \in UnitType, pos \in SpawnPositions :
            (CreateUnit(p, t, pos) /\ ret'.ok) =>
                /\ players[p].money - players'[p].money
                     = priceAt[t][Len(players[p].units)]
                /\ priceAt[t][Len(players'[p].units)]
                     > players[p].money - players'[p].money
         ]_vars

\* the first player has bought two soldiers in a row, the second for more
\* than the first
C18_Witness ==
    /\ ret.op = "createUnit" /\ ret.ok
    /\ Len(players) = 1
    /\ Len(players[1].units) = 4
    /\ units[3].type = SOLDIER /\ units[4].type = SOLDIER
    /\ players[1].money
         = startingMoney - priceAt[SOLDIER][0] - priceAt[SOLDIER][1]
             - priceAt[SOLDIER][2] - priceAt[SOLDIER][3]
    /\ priceAt[SOLDIER][3] > priceAt[SOLDIER][2]

----------------------------------------------------------------------------
\* a balance from which an empty roster can be rebuilt: the price of a first
\* soldier, the threshold of the engine's own checkGameOver
rebuildThreshold == 150

canStillPlay(player) ==
    \/ \E k \in 1..Len(player.units) : ~units[player.units[k]].isDead
    \/ player.money >= rebuildThreshold

\* C19: the driver has stopped the game exactly when at most one player
\* has a living unit or a balance of at least the rebuild threshold, and it
\* never steps the engine between stopping and a restart.
C19_StopsWhenOnePlayerActive ==
    /\ [](Len(players) = Len(BaseSpots) =>
            ( ~gameRunning
                <=> Cardinality({p \in Players : canStillPlay(players[p])}) <= 1 ))
    /\ [][~gameRunning => (gameTime' = gameTime \/ ret'.op = "restartGame")]_vars

----------------------------------------------------------------------------
\* The worlds that the forEach of a tick of deltaTime ms goes through: the
\* i-th is the world when it reaches unit i, for i up to n
RECURSIVE atTurns(_, _)
atTurns(n, deltaTime) ==
    IF n = 1 THEN << [players |-> players, units |-> units, hits |-> {}] >>
    ELSE LET before == atTurns(n - 1, deltaTime)
         IN  Append(before,
                    updateUnit(before[n - 1], n - 1, deltaTime,
                               gameTime + deltaTime))

distanceSq(us, a, b) ==
    sq(us[b].position.x - us[a].position.x, us[b].position.y - us[a].position.y)

\* the living units of other players that unit i can attack, no farther
\* than range * 25
engageable(us, i) ==
    {j \in 1..Len(us) :
        /\ ~us[j].isDead
        /\ us[j].playerId # us[i].playerId
        /\ canAttack(us, i, j)
        /\ distanceSq(us, i, j)
             <= (UNIT_STATS(us[i].type).range * 25 * PosScale)
                  * (UNIT_STATS(us[i].type).range * 25 * PosScale)}

\* the nearest of them, the first in map order among the nearest
firstNearest(us, i) ==
    CHOOSE j \in engageable(us, i) :
        \A k \in engageable(us, i) :
            \/ distanceSq(us, i, j) < distanceSq(us, i, k)
            \/ distanceSq(us, i, j) = distanceSq(us, i, k) /\ j <= k

withinReach(us, a, b) ==
    distanceSq(us, a, b)
        <= (UNIT_STATS(us[a].type).range * 20 * PosScale)
             * (UNIT_STATS(us[a].type).range * 20 * PosScale)

\* C20: at its turn in a tick a unit scans for a target only if it is alive,
\* not moving and not attacking; it then starts attacking the nearest living
\* unit of another player that its capabilities cover within range * 25, the
\* first in map order among the nearest, and stays idle when there is none;
\* the scan comes before its combat step of the same tick, so that a target
\* within reach is hit in that tick when a second boundary is crossed.
C20_AutoEngageNearest ==
    [][(ret'.op = "update" /\ units # << >>) =>
         \A worlds \in {atTurns(Len(units), gameTime' - gameTime)} :
         \A i \in 1..Len(units) :
         \A us \in {worlds[i].units} :
         \A scanned \in {checkForAutoTarget(us, i)} :
            IF us[i].isDead \/ us[i].isMoving \/ us[i].isAttacking
            THEN /\ us[i].isDead => units'[i] = us[i]
                 /\ ~us[i].isDead => scanned = us
            ELSE IF engageable(us, i) = {}
            THEN /\ scanned = us
                 /\ ~units'[i].isAttacking /\ units'[i].targetId = NULL
            ELSE \A nearest \in {firstNearest(us, i)} :
                 /\ scanned = [us EXCEPT ![i] =
                                 [@ EXCEPT !.isAttacking = TRUE,
                                           !.targetId = nearest]]
                 /\ units'[i].isAttacking
                 /\ units'[i].targetId = nearest
                 /\ ( /\ withinReach(us, i, nearest)
                      /\ (gameTime' \div MsPerSecond) > (gameTime \div MsPerSecond) )
                      => <<i, nearest>> \in tick'.hits
      ]_vars

\* in the first tick a soldier, which is given no attack order, has engaged
\* and hit the first of two enemies that had both marched to the same place
\* within its reach earlier in that tick
C20_Witness ==
    /\ ret.op = "update"
    /\ gameTime = respawnTime * MsPerSecond
    /\ \E i \in Units, j \in Units, k \in Units :
          /\ j < k /\ k < i
          /\ units[i].type = SOLDIER /\ ~units[i].isDead
          /\ units[i].isAttacking /\ units[i].targetId = j
          /\ <<i, j>> \in tick.hits
          /\ ~units[j].isDead /\ ~units[k].isDead
          /\ units[j].playerId # units[i].playerId
          /\ units[k].playerId # units[i].playerId
          /\ units[j].position = units[k].position
          /\ withinReach(units, i, j)

----------------------------------------------------------------------------
\* unit.speed * deltaTime * 60 for a step of the given milliseconds
strideOf(us, i, deltaTime) ==
    (UNIT_STATS(us[i].type).speed2 * deltaTime * 60 * PosScale)
        \div (2 * MsPerSecond)

\* a living unit that is marching and attacking a living unit, its waypoint
\* one distance unit or more away
marchingAttacker(us, i) ==
    /\ ~us[i].isDead /\ us[i].isMoving /\ us[i].isAttacking
    /\ us[i].path # << >>
    /\ sq(us[i].path[1].x - us[i].position.x,
          us[i].path[1].y - us[i].position.y) >= PosScale * PosScale
    /\ us[i].targetId \in 1..Len(us)
    /\ ~us[us[i].targetId].isDead

\* C21: a successful attackUnit changes only the attacker's targetId and
\* isAttacking, so that a marching unit keeps isMoving and its waypoints; in
\* the following tick that unit first advances toward its waypoint and then,
\* from where it has got to, hits its target (when in reach and a second
\* boundary is crossed) or chases it.
C21_AttackOrderKeepsMarch ==
    [][/\ \A a \in 1..(Len(units) + 1), t \in 1..(Len(units) + 1) :
            (AttackUnit(a, t) /\ ret'.ok) =>
               /\ units' = [units EXCEPT ![a] = [@ EXCEPT !.targetId = t,
                                                          !.isAttacking = TRUE]]
               /\ players' = players /\ resources' = resources
               /\ gameTime' = gameTime
       /\ (isUpdateStep /\ units # << >>) =>
            \A worlds \in {atTurns(Len(units) + 1, gameTime' - gameTime)} :
            \A i \in 1..Len(units) :
            \A us \in {worlds[i].units} :
               marchingAttacker(us, i) =>
                  \A stride \in {strideOf(us, i, gameTime' - gameTime)} :
                  \A marched \in {stepToward(us[i].position,
                                             us[i].path[1].x - us[i].position.x,
                                             us[i].path[1].y - us[i].position.y,
                                             stride)} :
                  \A after \in {worlds[i + 1].units} :
                  \A t \in {us[i].targetId} :
                     /\ marched # us[i].position
                     /\ after[i].isMoving /\ after[i].path = us[i].path
                     /\ after[i].isAttacking /\ after[i].targetId = t
                     /\ IF withinSq(marched, us[t].position,
                                    UNIT_STATS(us[i].type).range * 20)
                        THEN /\ after[i].position = marched
                             /\ boundariesCrossed > 0 => <<i, t>> \in tick'.hits
                        ELSE /\ after[i].position =
                                  stepToward(marched,
                                             us[t].position.x - marched.x,
                                             us[t].position.y - marched.y,
                                             stride)
                             /\ <<i, t>> \notin tick'.hits
      ]_vars

\* a unit ordered to attack while marching has, in one tick, reached its
\* waypoint and hit its target from there
C21_Witness ==
    /\ ret.op = "update"
    /\ \E i \in Units :
          /\ ~units[i].isDead /\ units[i].isMoving /\ units[i].isAttacking
          /\ units[i].path # << >>
          /\ units[i].position = units[i].path[1]
          /\ units[i].position # newUnit(SOLDIER, Pos(100, 100), 1).position
          /\ <<i, units[i].targetId>> \in tick.hits

----------------------------------------------------------------------------
attackEachOther(us, a, b) ==
    /\ a # b
    /\ ~us[a].isDead /\ ~us[b].isDead
    /\ us[a].isAttacking /\ us[a].targetId = b
    /\ us[b].isAttacking /\ us[b].targetId = a

diesIn(us, us2, u) == ~us[u].isDead /\ us2[u].isDead

\* C22 as stated: units are processed in one pass, a unit killed earlier in
\* the tick does nothing at its own turn, and two units attacking each other
\* never both die in the same tick.
C22_NeverBothDie ==
    [][isUpdateStep =>
         \A a \in Units, b \in Units :
            attackEachOther(units, a, b) =>
               ~(diesIn(units, units', a) /\ diesIn(units, units', b))
      ]_vars

\* C22 amended: a unit killed earlier in a tick leaves the world as it is at
\* its own turn and hits nothing, so a unit that dies in a tick in which it
\* has hit was killed by a unit processed after it, and two units attacking
\* each other never kill each other in the same tick.
C22_KilledUnitTakesNoTurn ==
    [][(isUpdateStep /\ units # << >>) =>
         /\ \A worlds \in {atTurns(Len(units) + 1, gameTime' - gameTime)} :
            \A i \in 1..Len(units) :
               worlds[i].units[i].isDead =>
                  /\ worlds[i + 1] = worlds[i]
                  /\ \A t \in Units : <<i, t>> \notin tick'.hits
         /\ \A u \in Units :
               (diesIn(units, units', u) /\ \E t \in Units : <<u, t>> \in tick'.hits)
                  => lastHitter(tick'.hits, u) > u
         /\ \A a \in Units, b \in Units :
               ( /\ attackEachOther(units, a, b)
                 /\ diesIn(units, units', a) /\ diesIn(units, units', b) )
                  => ~( lastHitter(tick'.hits, a) = b
                        /\ lastHitter(tick'.hits, b) = a )
      ]_vars

\* a unit has been killed in a tick by the unit it was attacking, which it
\* was in reach of, and has not hit it in that tick
C22_Witness ==
    /\ ret.op = "update"
    /\ \E a \in Units, b \in Units :
          /\ a < b
          /\ units[b].isDead /\ ~units[a].isDead
          /\ units[b].isAttacking /\ units[b].targetId = a
          /\ withinSq(units[b].position, units[a].position,
                      UNIT_STATS(units[b].type).range * 20)
          /\ <<a, b>> \in tick.hits
          /\ <<b, a>> \notin tick.hits

----------------------------------------------------------------------------
\* the living attackers of a dead unit
attackersOfDead(us) ==
    {a \in 1..Len(us) :
        /\ ~us[a].isDead /\ us[a].isAttacking
        /\ us[a].targetId \in 1..Len(us)
        /\ us[us[a].targetId].isDead}

\* C23: a living attacking unit whose target is dead when its combat step
\* comes ends its turn not attacking and without target, having hit nothing
\* and moved only along its own path; hence at the end of a tick the only
\* living attackers of a dead unit are those whose turn came no later than
\* the blow that killed it in that very tick, and none is left at the end of
\* the tick following the death.
C23_TargetLapse ==
    [][(isUpdateStep /\ units # << >>) =>
         /\ \A worlds \in {atTurns(Len(units) + 1, gameTime' - gameTime)} :
            \A i \in 1..Len(units) :
            \A us \in {worlds[i].units} :
               i \in attackersOfDead(us) =>
                  /\ worlds[i + 1].units =
                        [moveAlongPath(us, i, gameTime' - gameTime) EXCEPT ![i] =
                            [@ EXCEPT !.isAttacking = FALSE, !.targetId = NULL]]
                  /\ worlds[i + 1].hits = worlds[i].hits
                  /\ worlds[i + 1].players = worlds[i].players
                  /\ ~units'[i].isAttacking /\ units'[i].targetId = NULL
         /\ \A a \in attackersOfDead(units') :
               /\ diesIn(units, units', units'[a].targetId)
               /\ a <= lastHitter(tick'.hits, units'[a].targetId)
         /\ \A a \in attackersOfDead(units) :
               ~units'[a].isDead => ~units'[a].isAttacking
      ]_vars

\* the tick after the one in which a unit killed its target: the target is
\* dead and its killer, which bears the marks of the fight and still stands
\* within reach of it, is idle and has no target
C23_Witness ==
    /\ ret.op = "update"
    /\ \E a \in Units, d \in Units :
          /\ units[d].isDead /\ units[d].targetId = a
          /\ ~units[a].isDead
          /\ ~units[a].isAttacking /\ units[a].targetId = NULL
          /\ units[a].health < UNIT_STATS(units[a].type).health * HealthScale
          /\ withinSq(units[a].position, units[d].position,
                      UNIT_STATS(units[a].type).range * 20)
          /\ \A h \in tick.hits : h[2] # d

----------------------------------------------------------------------------
\* the point reached from position by going min(stride, distance) toward
\* goal, both on a line parallel to the x axis
towardOnLine(position, goal, stride) ==
    [x |-> IF goal.x >= position.x
           THEN position.x + Min(stride, goal.x - position.x)
           ELSE position.x - Min(stride, position.x - goal.x),
     y |-> position.y]

\* C24: at its combat step an attacking unit with a living target either
\* stands and strikes or chases: within range * 20 of the target its
\* position is left as the movement step left it (and it hits when a second
\* boundary is crossed); farther away it moves toward the target by
\* min(speed * delta * 60, distance) and hits nothing in that tick, even
\* when the move brings it within range.
C24_AttackOrChase ==
    [][(isUpdateStep /\ units # << >>) =>
         \A worlds \in {atTurns(Len(units) + 1, gameTime' - gameTime)} :
         \A i \in 1..Len(units) :
         \A pre \in {moveAlongPath(checkForAutoTarget(worlds[i].units, i), i,
                                   gameTime' - gameTime)} :
            ( /\ ~pre[i].isDead /\ pre[i].isAttacking
              /\ pre[i].targetId \in 1..Len(pre)
              /\ ~pre[pre[i].targetId].isDead ) =>
               \A t \in {pre[i].targetId} :
               \A after \in {worlds[i + 1].units} :
                  /\ pre[i].position.y = pre[t].position.y
                  /\ after[i].isAttacking /\ after[i].targetId = t
                  /\ IF withinSq(pre[i].position, pre[t].position,
                                 UNIT_STATS(pre[i].type).range * 20)
                     THEN /\ after[i].position = pre[i].position
                          /\ <<i, t>> \in tick'.hits <=> boundariesCrossed > 0
                     ELSE /\ after[i].position =
                               towardOnLine(pre[i].position, pre[t].position,
                                            strideOf(pre, i, gameTime' - gameTime))
                          /\ after[i].position # pre[i].position
                          /\ after[t] = pre[t]
                          /\ <<i, t>> \notin tick'.hits
      ]_vars

\* after a tick that crossed a second boundary a unit stands within range
\* of its living target, which it has not hit in that tick: it has chased
C24_Witness ==
    /\ ret.op = "update"
    /\ \E i \in Units :
          /\ ~units[i].isDead /\ units[i].isAttacking
          /\ units[i].targetId \in Units
          /\ ~units[units[i].targetId].isDead
          /\ withinSq(units[i].position, units[units[i].targetId].position,
                      UNIT_STATS(units[i].type).range * 20)
          /\ tick.hits # {}
          /\ <<i, units[i].targetId>> \notin tick.hits

----------------------------------------------------------------------------
\* q lies in the rectangle spanned by a and b
inBox(a, b, q) ==
    /\ Min(a.x, b.x) <= q.x /\ q.x <= Max(a.x, b.x)
    /\ Min(a.y, b.y) <= q.y /\ q.y <= Max(a.y, b.y)

\* q lies on the segment from a to b
onSegment(a, b, q) ==
    /\ (q.x - a.x) * (b.y - a.y) = (q.y - a.y) * (b.x - a.x)
    /\ inBox(a, b, q)

\* the distance d from a to b and the point at stride from a toward b are
\* whole numbers of 1/PosScale units
wholeStep(a, b, d, stride) ==
    /\ d * d = sq(b.x - a.x, b.y - a.y)
    /\ d > 0
    /\ ((b.x - a.x) * stride) % d = 0
    /\ ((b.y - a.y) * stride) % d = 0

\* C25: the movement step of a living moving unit, for any delta >= 0: at
\* distance d >= 1 from its front waypoint it keeps its orders and does not
\* pass the waypoint, ending on the segment to the waypoint at distance
\* max(0, d - speed * delta * 60) from it, on the waypoint itself when
\* speed * delta * 60 >= d; at distance below 1 it stays where it is and
\* pops the waypoint.  The step changes nothing else.
C25_StepNeverOvershoots ==
    [][(isUpdateStep /\ units # << >>) =>
         \A worlds \in {atTurns(Len(units) + 1, gameTime' - gameTime)} :
         \A i \in 1..Len(units) :
         \A us \in {worlds[i].units} :
            (~us[i].isDead /\ us[i].isMoving /\ us[i].path # << >>) =>
               \A stepped \in {moveAlongPath(us, i, gameTime' - gameTime)} :
               \A waypoint \in {us[i].path[1]} :
               \A d \in {sqrtDistance(waypoint.x - us[i].position.x,
                                      waypoint.y - us[i].position.y)} :
               \A stride \in {strideOf(us, i, gameTime' - gameTime)} :
                  /\ stepped = [us EXCEPT ![i] = stepped[i]]
                  /\ ~us[i].isAttacking => worlds[i + 1].units = stepped
                  /\ IF sq(waypoint.x - us[i].position.x,
                           waypoint.y - us[i].position.y) < PosScale * PosScale
                     THEN stepped[i] = [us[i] EXCEPT !.path = Tail(@),
                                                     !.isMoving = (Len(us[i].path) > 1)]
                     ELSE /\ stepped[i] = [us[i] EXCEPT !.position = stepped[i].position]
                          /\ inBox(us[i].position, waypoint, stepped[i].position)
                          /\ stride >= d => stepped[i].position = waypoint
                          /\ wholeStep(us[i].position, waypoint, d, stride) =>
                               /\ onSegment(us[i].position, waypoint,
                                            stepped[i].position)
                               /\ sq(waypoint.x - stepped[i].position.x,
                                     waypoint.y - stepped[i].position.y)
                                    = Max(0, d - stride) * Max(0, d - stride)
      ]_vars

\* the first soldier is part of the way to the waypoint (130, 60), off its
\* line, having gone 24 of the 50 distance units
C25_Witness ==
    /\ ret.op = "update"
    /\ Len(units) >= 1
    /\ units[1].isMoving /\ units[1].path = <<Pos(130, 60)>>
    /\ units[1].position = [x |-> 11440, y |-> 8080]

----------------------------------------------------------------------------
\* the living units of player p among the first n units of the map, in
\* creation order
RECURSIVE livingOf(_, _, _)
livingOf(us, p, n) ==
    IF n = 0 THEN << >>
    ELSE IF us[n].playerId = p /\ ~us[n].isDead
    THEN Append(livingOf(us, p, n - 1), n)
    ELSE livingOf(us, p, n - 1)

\* C26: in every reachable state the roster of each player lists exactly
\* the units of the map that are not dead and have that player's id, each
\* once, in creation order.
C26_RosterConsistency ==
    \A p \in Players : players[p].units = livingOf(units, p, Len(units))

\* a player has lost a unit and has bought one
C26_Witness ==
    \E p \in Players, d \in Units, b \in Units :
        /\ units[d].playerId = p /\ units[d].isDead
        /\ units[b].playerId = p /\ ~units[b].isDead
        /\ d < b
        /\ b > 2 * Len(BaseSpots)
        /\ players[p].units # << >>

----------------------------------------------------------------------------
\* the resources credited to player p in a tick
creditedTo(credits, p) == {c \in credits : c[2] = p}

\* C27: no balance is ever negative; the balance of a player changes only
\* by a successful createUnit of that player, which lowers it by the price
\* at the player's roster size, and by a tick, which raises it by the
\* resource amount for every resource credited to the player.
C27_MoneyNeverNegative ==
    /\ [](\A p \in Players : players[p].money >= 0)
    /\ [][\A p \in Players :
            /\ players'[p].money >= 0
            /\ IF ret'.op = "createUnit" /\ ret'.ok
                  /\ units'[Len(units')].playerId = p
               THEN players'[p].money
                      = players[p].money
                          - unitCostOf[units'[Len(units')].type][Len(players[p].units)]
               ELSE IF isUpdateStep
               THEN players'[p].money
                      = players[p].money
                          + resourceAmount * Cardinality(creditedTo(tick'.credits, p))
               ELSE players'[p].money = players[p].money
         ]_vars

\* a player who has bought a unit has just been credited a resource and
\* holds less than the price of a soldier
C27_Witness ==
    /\ ret.op = "update"
    /\ \E p \in Players, b \in Units :
          /\ b > 2 * Len(BaseSpots)
          /\ units[b].playerId = p
          /\ creditedTo(tick.credits, p) # {}
          /\ players[p].money < unitCostOf[SOLDIER][Len(players[p].units)]

----------------------------------------------------------------------------
\* every unit of the map us attacks exactly when it has a target, and its
\* target is a unit of the map, of another player, that it can attack
targetsValid(us) ==
    \A u \in 1..Len(us) :
        /\ us[u].isAttacking <=> us[u].targetId # NULL
        /\ us[u].targetId # NULL =>
              /\ us[u].targetId \in 1..Len(us)
              /\ us[us[u].targetId].playerId # us[u].playerId
              /\ canAttack(us, u, us[u].targetId)

\* C28: in every reachable state, and at every unit's turn within a tick, a
\* unit has isAttacking set exactly when its targetId is set, and a set
\* targetId names an existing unit of a different player that the
\* attacker's capabilities cover; so the capability check of the combat
\* step never fails.
C28_TargetReferenceValid ==
    /\ [] targetsValid(units)
    /\ [][(isUpdateStep /\ units # << >>) =>
            \A worlds \in {atTurns(Len(units) + 1, gameTime' - gameTime)} :
            \A i \in 1..(Len(units) + 1) : targetsValid(worlds[i].units)
         ]_vars

\* a tank is attacking a ground unit while an enemy helicopter is alive, and
\* a unit that was ordered to move has no target
C28_Witness ==
    /\ \E a \in Units, h \in Units :
          /\ units[a].type = TANK /\ units[a].isAttacking /\ ~units[a].isDead
          /\ units[h].type = HELICOPTER /\ ~units[h].isDead
          /\ units[h].playerId # units[a].playerId
    /\ \E u \in Units : ~units[u].isAttacking /\ units[u].targetId = NULL

----------------------------------------------------------------------------
\* every unit of the map us is moving exactly when it has a waypoint
movingIffWaypoint(us) ==
    \A u \in 1..Len(us) : us[u].isMoving <=> us[u].path # << >>

\* C29: in every reachable state, and at every unit's turn within a tick, a
\* unit has isMoving set exactly when its waypoint queue is non-empty; so
\* the movement step of a tick of positive length acts on exactly the
\* living units that have a waypoint.
C29_MovingIffWaypoint ==
    /\ [] movingIffWaypoint(units)
    /\ [][(isUpdateStep /\ units # << >>) =>
            \A worlds \in {atTurns(Len(units) + 1, gameTime' - gameTime)} :
            \A i \in 1..Len(units) :
            \A us \in {worlds[i].units} :
               /\ movingIffWaypoint(us)
               /\ movingIffWaypoint(worlds[i + 1].units)
               /\ (~us[i].isDead /\ gameTime' > gameTime) =>
                    ( moveAlongPath(us, i, gameTime' - gameTime) # us
                        <=> us[i].path # << >> )
         ]_vars

\* the first soldier has reached the waypoint (130, 60) and has stopped,
\* its waypoint queue empty
C29_Witness ==
    /\ ret.op = "update"
    /\ Len(units) >= 1
    /\ units[1].position = Pos(130, 60)
    /\ ~units[1].isMoving /\ units[1].path = << >>

----------------------------------------------------------------------------
\* player p has a living soldier of the map us within collection range of
\* resource r
hasLivingCollector(us, p, r) ==
    \E u \in 1..Len(us) :
        /\ us[u].playerId = p /\ ~us[u].isDead /\ us[u].type = SOLDIER
        /\ sq(us[u].position.x - resources[r].position.x,
              us[u].position.y - resources[r].position.y)
             < (collectionRange * PosScale) * (collectionRange * PosScale)

\* C30: once a unit is dead no command and no tick changes its record
\* (position, health 0, flags, target, waypoints): it is not moved, hits
\* nothing and is hit by nothing, no unit is given it as a target by
\* attackUnit or by the auto-engage, and it earns its player no resource.
C30_DeadUnitFrozen ==
    [][/\ \A d \in Units :
            units[d].isDead =>
               /\ units'[d] = units[d]
               /\ units'[d].health = 0
               /\ \A h \in tick'.hits : h[1] # d /\ h[2] # d
               /\ \A a \in Units :
                     units'[a].targetId = d => units[a].targetId = d
       /\ \A a \in 1..(Len(units) + 1), t \in 1..(Len(units) + 1) :
            ( /\ AttackUnit(a, t)
              /\ a \in Units /\ t \in Units
              /\ (units[a].isDead \/ units[t].isDead) )
            => (~ret'.ok /\ units' = units)
       /\ \A u \in Units, pos \in MoveTargets :
            (MoveUnit(u, pos) /\ units[u].isDead) => (~ret'.ok /\ units' = units)
       /\ isUpdateStep =>
            \A c \in tick'.credits : hasLivingCollector(units', c[2], c[1])
      ]_vars

\* a tick has passed over a dead soldier that lies within collection range
\* of a resource just credited to another player and not to its own
C30_Witness ==
    /\ ret.op = "update"
    /\ \E d \in Units, r \in Resources :
          /\ units[d].isDead /\ units[d].type = SOLDIER
          /\ \A h \in tick.hits : h[2] # d
          /\ sq(units[d].position.x - resources[r].position.x,
                units[d].position.y - resources[r].position.y)
               < (collectionRange * PosScale) * (collectionRange * PosScale)
          /\ creditedIn(tick.credits, r)
          /\ <<r, units[d].playerId>> \notin tick.credits

----------------------------------------------------------------------------
\* the gameLoop callbacks the browser still holds: those requested for the
\* next frame and those of the frame in progress not yet invoked
pendingLoops == Len(frames.callbacks) + Len(frames.running)

\* C31: at most one game loop drives the engine: there is never more than
\* one pending gameLoop callback, and engine.update is invoked at most once
\* in an animation frame.
C31_SingleGameLoop ==
    /\ pendingLoops <= 1
    /\ frames.updates <= 1

\* the old loop running beside the new one: a frame that has stepped the
\* engine of the restarted game twice
C31_TwoLoopsWitness ==
    /\ gameRunning
    /\ frames.updates = 2
    /\ Len(frames.callbacks) = 2

----------------------------------------------------------------------------
(* The cost display of the page (part_001 63-85): every second the        *)
(* interval callback writes a cost per unit type from player.units.length *)

\* const baseCost = 100 / 300 / 500 in the three branches
displayBaseCost(unitType) ==
    CASE unitType = SOLDIER -> 100
      [] unitType = TANK -> 300
      [] unitType = HELICOPTER -> 500

\* The literal 0.05: the double 0x3FA999999999999A = 0x1999999999999A * 2^-57.
doubleTwentieth == [m |-> doubleTenth.m, e |-> -57]

\* Math.floor(baseCost * (1 + unitCount * 0.05))
scaledCost(unitType, unitCount) ==
    doubleFloor(doubleTimesNat(displayBaseCost(unitType),
                               doubleOnePlus(doubleTimesNat(unitCount,
                                                            doubleTwentieth))))

\* scaledCost, evaluated once for every roster size the model can reach
scaledCostOf == [t \in UnitType |-> [n \in 0..(MaxUnits + 1) |-> scaledCost(t, n)]]

\* const unitCount = player.units.length, for the player the page shows
unitCount == Len(players[humanPlayer].units)

\* C32: for every unit type the cost the page displays at the player's
\* roster size is the amount createUnit deducts for that type at that
\* roster size.
C32_DisplayedCostIsCharged ==
    humanPlayer \in 1..Len(players) =>
        \A t \in UnitType : scaledCostOf[t][unitCount] = unitCostOf[t][unitCount]

\* a purchase through the controller that took more than the page showed
\* for the roster the player had
C32_OverchargeWitness ==
    /\ ret.op = "createUnit" /\ ret.ok
    /\ humanPlayer \in 1..Len(players)
    /\ unitCount >= 3
    /\ \E t \in UnitType :
        /\ units[Len(units)].type = t
        /\ units[Len(units)].playerId = humanPlayer
        /\ scaledCostOf[t][unitCount - 1] < unitCostOf[t][unitCount - 1]

====
